---- MODULE Spec2Model ----
(***************************************************************************)
(* A model of the transaction-building core of avalanche.js:               *)
(*   - OutputOwners (src/src/common/output.ts): spender selection,         *)
(*     threshold test, owner-set construction and decoding;                *)
(*   - the PlatformVM UTXOSet (src/unnamed/part_000): coin selection       *)
(*     (getMinimumSpendable) and the builders buildBaseTx / buildExportTx; *)
(*   - the PlatformVMAPI facade (src/src/apis/platformvm/api.ts): the      *)
(*     AVAX-asset-ID and fee caches, checkGooseEgg and buildExportTx.      *)
(*                                                                         *)
(* Byte fields are modelled by their numeric value: an address, an asset   *)
(* ID and a transaction ID are naturals whose order is the raw-byte order  *)
(* of the field, and a serialized object is the sequence of its            *)
(* fixed-width big-endian fields, so that Buffer.compare is the            *)
(* lexicographic order of these sequences.  An optional argument           *)
(* (`undefined` in the source) is a sequence of length 0 or 1.             *)
(***************************************************************************)
EXTENDS Integers, Sequences, FiniteSets, Bags, TLC

VARIABLES utxos, last, AVAXAssetID, fee, pending, db

vars == <<utxos, last, AVAXAssetID, fee, pending, db>>

(***************************************************************************)
(* Bounds of the model.                                                    *)
(***************************************************************************)
\* the largest number of UTXOs a UTXO set holds
MaxUTXOs == 3
\* the largest number of RPC requests of one facade that are in flight
MaxPending == 2

(***************************************************************************)
(* Constants of the program.                                               *)
(***************************************************************************)
\* PlatformVMConstants.SECPXFEROUTPUTID: the tag of the amount-bearing output
SECPXFEROUTPUTID == 7
\* PlatformVMConstants.SECPOWNEROUTPUTID: the tag of an output without amount
SECPOWNEROUTPUTID == 11
\* PlatformVMConstants.ONEAVAX; amounts of the model are counted in this unit
ONEAVAX == 1

(***************************************************************************)
(* Generic helpers on sequences.                                           *)
(***************************************************************************)
Range(s) == {s[i] : i \in 1..Len(s)}

RECURSIVE SumSeq(_)
SumSeq(s) == IF s = <<>> THEN 0 ELSE Head(s) + SumSeq(Tail(s))

\* Buffer.compare: -1, 0 or 1, the lexicographic order of two byte strings
RECURSIVE BufferCompare(_, _)
BufferCompare(a, b) ==
  IF a = <<>> /\ b = <<>> THEN 0
  ELSE IF a = <<>> THEN 0 - 1
  ELSE IF b = <<>> THEN 1
  ELSE IF Head(a) < Head(b) THEN 0 - 1
  ELSE IF Head(a) > Head(b) THEN 1
  ELSE BufferCompare(Tail(a), Tail(b))

(***************************************************************************)
(* Address and OutputOwners (common/output.ts).                            *)
(***************************************************************************)
\* Address.comparator: byte-wise comparison of two addresses
AddressComparator(a, b) == BufferCompare(<<a>>, <<b>>)

\* Array.sort(Address.comparator()): stable insertion of x into a sorted list
RECURSIVE InsertAddress(_, _)
InsertAddress(x, s) ==
  IF s = <<>> THEN <<x>>
  ELSE IF AddressComparator(x, Head(s)) < 0 THEN <<x>> \o s
  ELSE <<Head(s)>> \o InsertAddress(x, Tail(s))

RECURSIVE SortAddresses(_)
SortAddresses(s) ==
  IF s = <<>> THEN <<>>
  ELSE InsertAddress(s[Len(s)], SortAddresses(SubSeq(s, 1, Len(s) - 1)))

\* new OutputOwners(addresses, locktime, threshold): the addresses are sorted,
\* a threshold of 0 (or undefined) is stored as 1
OutputOwners(addresses, locktime, threshold) ==
  [locktime  |-> locktime,
   threshold |-> IF threshold = 0 THEN 1 ELSE threshold,
   addresses |-> SortAddresses(addresses)]

\* OutputOwners.fromBuffer on the fields locktime, threshold, addresses: the
\* threshold is taken as it is, the addresses are sorted after reading
OwnersFromBuffer(locktime, threshold, addresses) ==
  [locktime  |-> locktime,
   threshold |-> threshold,
   addresses |-> SortAddresses(addresses)]

\* OutputOwners.getAddressIdx: index (from 0) of the first equal address, or -1
RECURSIVE AddressIdxFrom(_, _, _)
AddressIdxFrom(owners, address, i) ==
  IF i > Len(owners.addresses) THEN 0 - 1
  ELSE IF owners.addresses[i] = address THEN i - 1
  ELSE AddressIdxFrom(owners, address, i + 1)

\* a getAddressIdx whose loop starts at the second owner address
getAddressIdxSkipFirst(owners, address) == AddressIdxFrom(owners, address, 2)

getAddressIdx(owners, address) == AddressIdxFrom(owners, address, 1)

\* the inner loop of getSpenders without its bound on the spenders qualified
RECURSIVE SpendersInnerUnbounded(_, _, _, _, _)
SpendersInnerUnbounded(a, addresses, j, threshold, qualified) ==
  IF j > Len(addresses) THEN qualified
  ELSE SpendersInnerUnbounded(a, addresses, j + 1, threshold,
                     IF addresses[j] = a THEN Append(qualified, addresses[j])
                                         ELSE qualified)

\* the inner loop of getSpenders: the candidates j.. are compared with the
\* owner address a, while fewer than threshold spenders are qualified
RECURSIVE SpendersInner(_, _, _, _, _)
SpendersInner(a, addresses, j, threshold, qualified) ==
  IF j > Len(addresses) \/ Len(qualified) >= threshold THEN qualified
  ELSE SpendersInner(a, addresses, j + 1, threshold,
                     IF addresses[j] = a THEN Append(qualified, addresses[j])
                                         ELSE qualified)

\* the outer loop of getSpenders over the owner addresses i..
RECURSIVE SpendersOuter(_, _, _, _)
SpendersOuter(owners, addresses, i, qualified) ==
  IF i > Len(owners.addresses) \/ Len(qualified) >= owners.threshold
  THEN qualified
  ELSE SpendersOuter(owners, addresses, i + 1,
         SpendersInner(owners.addresses[i], addresses, 1, owners.threshold,
                       qualified))

\* OutputOwners.getSpenders(addresses, asOf)
getSpenders(owners, addresses, asOf) ==
  IF asOf <= owners.locktime THEN <<>>
  ELSE SpendersOuter(owners, addresses, 1, <<>>)

\* OutputOwners.meetsThreshold(addresses, asOf)
meetsThreshold(owners, addresses, asOf) ==
  Len(getSpenders(owners, addresses, asOf)) >= owners.threshold

(***************************************************************************)
(* Outputs, UTXOs and inputs.                                              *)
(***************************************************************************)
\* SelectOutputClass(outputid, amount, addresses, locktime, threshold): a new
\* output of the given tag, built by the StandardAmountOutput constructor
SelectOutputClass(outputid, amount, addresses, locktime, threshold) ==
  [outputid |-> outputid, amount |-> amount,
   owners   |-> OutputOwners(addresses, locktime, threshold)]

\* u.getOutput() instanceof AmountOutput
IsAmountOutput(output) == output.outputid = SECPXFEROUTPUTID

\* a UTXO as UTXO.fromBuffer leaves it (UTXOSet.parseUTXO always decodes)
UTXOFromBuffer(txid, assetid, outputid, amount, locktime, threshold, addresses) ==
  [txid |-> txid, outputidx |-> 0, assetid |-> assetid,
   output |-> [outputid |-> outputid, amount |-> amount,
               owners   |-> OwnersFromBuffer(locktime, threshold, addresses)]]

\* new TransferableOutput(assetID, output)
TransferableOutput(assetID, output) == [assetid |-> assetID, output |-> output]

\* OutputOwners.toBuffer: locktime(8) threshold(4) numaddrs(4) addresses
OwnersToBuffer(owners) ==
  <<owners.locktime, owners.threshold, Len(owners.addresses)>>
    \o SortAddresses(owners.addresses)

\* StandardAmountOutput.toBuffer: amount(8) then the owners
AmountOutputToBuffer(output) == <<output.amount>> \o OwnersToBuffer(output.owners)

\* StandardTransferableOutput.toBuffer: assetID(32) outputid(4) output
TransferableOutputToBuffer(xo) ==
  <<xo.assetid, xo.output.outputid>> \o AmountOutputToBuffer(xo.output)

\* a comparator that leaves the asset ID out of the bytes it compares
TransferableOutputComparatorNoAsset(a, b) ==
  BufferCompare(Tail(TransferableOutputToBuffer(a)),
                Tail(TransferableOutputToBuffer(b)))

\* StandardTransferableOutput.comparator
TransferableOutputComparator(a, b) ==
  BufferCompare(TransferableOutputToBuffer(a), TransferableOutputToBuffer(b))

RECURSIVE InsertOutput(_, _)
InsertOutput(x, s) ==
  IF s = <<>> THEN <<x>>
  ELSE IF TransferableOutputComparator(x, Head(s)) < 0 THEN <<x>> \o s
  ELSE <<Head(s)>> \o InsertOutput(x, Tail(s))

\* outs.sort(TransferableOutput.comparator())
RECURSIVE SortOutputs(_)
SortOutputs(s) ==
  IF s = <<>> THEN <<>>
  ELSE InsertOutput(s[Len(s)], SortOutputs(SubSeq(s, 1, Len(s) - 1)))

\* the sort key of a TransferableInput: txid(32) outputidx(4)
TransferableInputComparator(a, b) ==
  BufferCompare(<<a.txid, a.outputidx>>, <<b.txid, b.outputidx>>)

RECURSIVE InsertInput(_, _)
InsertInput(x, s) ==
  IF s = <<>> THEN <<x>>
  ELSE IF TransferableInputComparator(x, Head(s)) < 0 THEN <<x>> \o s
  ELSE <<Head(s)>> \o InsertInput(x, Tail(s))

\* ins.sort(TransferableInput.comparator())
RECURSIVE SortInputs(_)
SortInputs(s) ==
  IF s = <<>> THEN <<>>
  ELSE InsertInput(s[Len(s)], SortInputs(SubSeq(s, 1, Len(s) - 1)))

\* StandardAmountInput.toBuffer with its TransferableInput header:
\* txid(32) outputidx(4) assetid(32) amount(8) numsigs(4) sigidxs
TransferableInputToBuffer(xi) ==
  <<xi.txid, xi.outputidx, xi.assetid, xi.amount, Len(xi.sigIdxs)>> \o xi.sigIdxs

RECURSIVE ConcatBuffers(_)
ConcatBuffers(s) == IF s = <<>> THEN <<>> ELSE Head(s) \o ConcatBuffers(Tail(s))

(***************************************************************************)
(* AssetAmount and the asset-amount destination (AAD).                     *)
(***************************************************************************)
Min(a, b) == IF a < b THEN a ELSE b

\* new AssetAmount(assetID, amount, burn)
AssetAmount(assetID, amount, burn) ==
  [assetid |-> assetID, amount |-> amount, burn |-> burn,
   spent |-> 0, burned |-> 0, change |-> 0]

\* AssetAmount.isFinished: both targets are met
isFinished(am) == am.spent >= am.amount /\ am.burned >= am.burn

\* AssetAmount.spendAmount(a): a goes to the amount target first, what
\* overflows goes to the burn target, and what is left over is change
spendAmount(am, a) ==
  LET toAmount == Min(a, am.amount - am.spent)
      toBurn   == Min(a - toAmount, am.burn - am.burned)
  IN [am EXCEPT !.spent  = @ + toAmount,
                !.burned = @ + toBurn,
                !.change = @ + (a - toAmount - toBurn)]

\* new AssetAmountDestination(destinations, senders, changeAddresses)
AssetAmountDestination(destinations, senders, changeAddresses) ==
  [amounts |-> <<>>, destinations |-> destinations, senders |-> senders,
   changeAddresses |-> changeAddresses,
   inputs |-> <<>>, outputs |-> <<>>, change |-> <<>>]

\* aad.addAssetAmount(assetID, amount, burn)
addAssetAmount(aad, assetID, amount, burn) ==
  [aad EXCEPT !.amounts = Append(@, AssetAmount(assetID, amount, burn))]

\* aad.assetExists(assetKey)
assetExists(aad, assetKey) ==
  \E k \in 1..Len(aad.amounts) : aad.amounts[k].assetid = assetKey

\* the position of the AssetAmount aad.getAssetAmount(assetKey) returns: the
\* one added last for the key
AssetIndex(aad, assetKey) ==
  CHOOSE k \in 1..Len(aad.amounts) :
    /\ aad.amounts[k].assetid = assetKey
    /\ \A l \in (k + 1)..Len(aad.amounts) : aad.amounts[l].assetid # assetKey

\* aad.canComplete()
canComplete(aad) == \A k \in 1..Len(aad.amounts) : isFinished(aad.amounts[k])

\* aad.getAllOutputs(): the destination outputs, then the change outputs
getAllOutputs(aad) == aad.outputs \o aad.change

(***************************************************************************)
(* Coin selection: UTXOSet.getMinimumSpendable (part_000, 232-299).        *)
(***************************************************************************)
\* the asset IDs of the model; 1 is the AVAX asset
AssetIDs == {1, 2}

\* an input that records the spenders against the indices in reverse
SelectInputSourcesReversed(u, spenders) ==
  [txid |-> u.txid, outputidx |-> u.outputidx, assetid |-> u.assetid,
   amount |-> u.output.amount,
   sigIdxs |-> [j \in 1..Len(spenders) |->
                  getAddressIdx(u.output.owners, spenders[j])],
   sigSources |-> [j \in 1..Len(spenders) |->
                     spenders[Len(spenders) + 1 - j]]]

\* lines 248-259: the input of UTXO u with one signature index per spender
SelectInput(u, spenders) ==
  [txid |-> u.txid, outputidx |-> u.outputidx, assetid |-> u.assetid,
   amount |-> u.output.amount,
   sigIdxs |-> [j \in 1..Len(spenders) |->
                  getAddressIdx(u.output.owners, spenders[j])],
   sigSources |-> spenders]

\* the test of line 239 without its meetsThreshold conjunct
QualifiesNoThreshold(u, aad, asOf) ==
  /\ IsAmountOutput(u.output)
  /\ assetExists(aad, u.assetid)

\* line 239: the UTXO is amount-bearing, of an asset of the AAD, and the
\* senders meet its threshold at asOf
Qualifies(u, aad, asOf) ==
  /\ IsAmountOutput(u.output)
  /\ assetExists(aad, u.assetid)
  /\ meetsThreshold(u.output.owners, aad.senders, asOf)

\* an iteration of the walk that spends a qualifying UTXO without the test
\* of line 241 on the AssetAmount
WalkStepGreedy(st, u, asOf) ==
  IF ~Qualifies(u, st.aad, asOf) THEN st
  ELSE
    LET k  == AssetIndex(st.aad, u.assetid)
        am == st.aad.amounts[k]
        xferin == SelectInput(u, getSpenders(u.output.owners,
                                             st.aad.senders, asOf))
        spent  == [st.aad EXCEPT !.amounts[k] = spendAmount(am, u.output.amount)]
    IN IF \E j \in 1..Len(xferin.sigIdxs) : xferin.sigIdxs[j] = 0 - 1
       THEN [aad |-> spent,
             outids |-> [st.outids EXCEPT ![u.assetid] = u.output.outputid],
             thrown |-> TRUE]
       ELSE [aad |-> [spent EXCEPT !.inputs = Append(@, xferin)],
             outids |-> [st.outids EXCEPT ![u.assetid] = u.output.outputid],
             thrown |-> FALSE]

\* lines 236-273: one iteration of the walk, on the UTXO u
WalkStep(st, u, asOf) ==
  IF ~Qualifies(u, st.aad, asOf) THEN st
  ELSE
    LET k  == AssetIndex(st.aad, u.assetid)
        am == st.aad.amounts[k]
    IN IF isFinished(am) THEN st
       ELSE
         LET xferin == SelectInput(u, getSpenders(u.output.owners,
                                                  st.aad.senders, asOf))
             spent  == [st.aad EXCEPT !.amounts[k] = spendAmount(am, u.output.amount)]
         IN IF \E j \in 1..Len(xferin.sigIdxs) : xferin.sigIdxs[j] = 0 - 1
            THEN [aad |-> spent,
                  outids |-> [st.outids EXCEPT ![u.assetid] = u.output.outputid],
                  thrown |-> TRUE]
            ELSE [aad |-> [spent EXCEPT !.inputs = Append(@, xferin)],
                  outids |-> [st.outids EXCEPT ![u.assetid] = u.output.outputid],
                  thrown |-> FALSE]

\* line 235: the loop over utxoArray from position i
RECURSIVE Walk(_, _, _, _)
Walk(utxoArray, i, st, asOf) ==
  IF i > Len(utxoArray) \/ canComplete(st.aad) \/ st.thrown THEN st
  ELSE Walk(utxoArray, i + 1, WalkStep(st, utxoArray[i], asOf), asOf)

\* the body of the loop of lines 281-297 without the change output
EmitForNoChange(aad, outids, k, locktime, threshold) ==
  LET am == aad.amounts[k]
  IN IF am.amount > 0
     THEN [aad EXCEPT !.outputs = Append(@, TransferableOutput(am.assetid,
             SelectOutputClass(outids[am.assetid], am.amount,
                               aad.destinations, locktime, threshold)))]
     ELSE aad

\* the body of the loop of lines 281-297 with a change output in every case
EmitForAlwaysChange(aad, outids, k, locktime, threshold) ==
  LET am   == aad.amounts[k]
      aad1 == IF am.amount > 0
              THEN [aad EXCEPT !.outputs = Append(@, TransferableOutput(am.assetid,
                      SelectOutputClass(outids[am.assetid], am.amount,
                                        aad.destinations, locktime, threshold)))]
              ELSE aad
  IN [aad1 EXCEPT !.change = Append(@, TransferableOutput(am.assetid,
             SelectOutputClass(outids[am.assetid], am.change,
                               aad.changeAddresses, 0, 0)))]

\* lines 282-296: the outputs of the k-th asset of the AAD
EmitFor(aad, outids, k, locktime, threshold) ==
  LET am   == aad.amounts[k]
      aad1 == IF am.amount > 0
              THEN [aad EXCEPT !.outputs = Append(@, TransferableOutput(am.assetid,
                      SelectOutputClass(outids[am.assetid], am.amount,
                                        aad.destinations, locktime, threshold)))]
              ELSE aad
  IN IF am.change > 0
     THEN [aad1 EXCEPT !.change = Append(@, TransferableOutput(am.assetid,
             SelectOutputClass(outids[am.assetid], am.change,
                               aad.changeAddresses, 0, 0)))]
     ELSE aad1

\* lines 279-297: the loop over aad.getAmounts() from position k
RECURSIVE Emit(_, _, _, _, _)
Emit(aad, outids, k, locktime, threshold) ==
  IF k > Len(aad.amounts) THEN aad
  ELSE Emit(EmitFor(aad, outids, k, locktime, threshold), outids, k + 1,
            locktime, threshold)

\* getMinimumSpendable(aad, asOf, locktime, threshold) on the UTXOs utxoArray
\* (this.getAllUTXOs()): the error returned or thrown and the AAD afterwards
getMinimumSpendable(utxoArray, aad, asOf, locktime, threshold) ==
  LET st == Walk(utxoArray, 1,
                 [aad |-> aad, outids |-> [a \in AssetIDs |-> 0],
                  thrown |-> FALSE], asOf)
  IN IF st.thrown THEN [error |-> "SpenderMismatch", aad |-> st.aad]
     ELSE IF ~canComplete(st.aad)
          THEN [error |-> "InsufficientFunds", aad |-> st.aad]
          ELSE [error |-> "",
                aad |-> Emit(st.aad, st.outids, 1, locktime, threshold)]

(***************************************************************************)
(* Transactions and the UTXOSet builders (part_000, 322-519).              *)
(***************************************************************************)
\* PlatformChainID (utils/constants): the 32 zero bytes of the platform chain
PlatformChainID == 0

\* the value a builder returns for `undefined`, and the one an error leaves
NoTx ==
  [txtype |-> "", outs |-> <<>>, ins |-> <<>>, exportOuts |-> <<>>,
   destinationChain |-> <<>>, stakeOuts |-> <<>>, importIns |-> <<>>,
   stake |-> <<>>]

\* new BaseTx(networkid, blockchainid, outs, ins, memo): the constructor
\* sorts the outputs and the inputs
BaseTx(outs, ins) ==
  [txtype |-> "BaseTx", outs |-> SortOutputs(outs), ins |-> SortInputs(ins),
   exportOuts |-> <<>>, destinationChain |-> <<>>, stakeOuts |-> <<>>,
   importIns |-> <<>>, stake |-> <<>>]

\* new ExportTx(networkid, blockchainid, destinationChain, outs, ins, memo,
\* exportOuts): the export outputs are kept as given until toBuffer
ExportTx(destinationChain, outs, ins, exportOuts) ==
  [txtype |-> "ExportTx", outs |-> SortOutputs(outs), ins |-> SortInputs(ins),
   exportOuts |-> exportOuts, destinationChain |-> <<destinationChain>>,
   stakeOuts |-> <<>>, importIns |-> <<>>, stake |-> <<>>]

\* UnsignedTx.toBuffer of a BaseTx or an ExportTx (ExportTx.toBuffer sorts
\* the export outputs): numouts outs numins ins [chain numouts exportouts]
TxToBuffer(tx) ==
  <<Len(tx.outs)>>
    \o ConcatBuffers([i \in 1..Len(tx.outs) |-> TransferableOutputToBuffer(tx.outs[i])])
    \o <<Len(tx.ins)>>
    \o ConcatBuffers([i \in 1..Len(tx.ins) |-> TransferableInputToBuffer(tx.ins[i])])
    \o (IF tx.txtype = "ExportTx"
        THEN tx.destinationChain \o <<Len(tx.exportOuts)>>
               \o ConcatBuffers([i \in 1..Len(tx.exportOuts) |->
                    TransferableOutputToBuffer(SortOutputs(tx.exportOuts)[i])])
        ELSE <<>>)

\* the outcome of a builder: status is "tx" (an UnsignedTx is returned),
\* "undefined" (the no-transaction value is returned) or "throw"
Outcome(status, error, aad, tx) ==
  [status |-> status, error |-> error, aad |-> aad, tx |-> tx]

NoAAD == AssetAmountDestination(<<>>, <<>>, <<>>)

\* UTXOSet._feeCheck(fee, feeAssetID)
feeCheck(feeAmount, feeAssetID) == feeAmount > 0

\* lines 357-365 and 498-506: the AAD of a transfer of amount of assetID, the
\* fee being burned in feeAssetID
TransferAAD(to, from, change, assetID, amount, feeAmount, feeAssetID) ==
  LET aad == AssetAmountDestination(to, from, change)
  IN IF assetID = feeAssetID
     THEN addAssetAmount(aad, assetID, amount, feeAmount)
     ELSE IF feeCheck(feeAmount, feeAssetID)
          THEN addAssetAmount(addAssetAmount(aad, assetID, amount, 0),
                              feeAssetID, 0, feeAmount)
          ELSE addAssetAmount(aad, assetID, amount, 0)

\* a buildBaseTx that wraps what was selected when the selection fails
buildBaseTxPartial(utxoArray, a) ==
  IF a.threshold > Len(a.toAddresses)
  THEN Outcome("throw", "ThresholdError", NoAAD, NoTx)
  ELSE
    LET changeAddresses == IF a.changeAddresses = <<>> THEN a.toAddresses
                           ELSE a.changeAddresses[1]
        feeAssetID == IF a.feeAssetID = <<>> THEN a.assetID ELSE a.feeAssetID[1]
    IN IF a.amount = 0 THEN Outcome("undefined", "", NoAAD, NoTx)
       ELSE
         LET aad == TransferAAD(a.toAddresses, a.fromAddresses, changeAddresses,
                                a.assetID, a.amount, a.fee, feeAssetID)
             success == getMinimumSpendable(utxoArray, aad, a.asOf, a.locktime,
                                            a.threshold)
         IN Outcome(IF success.error = "" THEN "tx" ELSE "throw",
                    success.error, success.aad,
                    BaseTx(getAllOutputs(success.aad), success.aad.inputs))

\* UTXOSet.buildBaseTx on the UTXOs utxoArray with the arguments a
buildBaseTx(utxoArray, a) ==
  IF a.threshold > Len(a.toAddresses)
  THEN Outcome("throw", "ThresholdError", NoAAD, NoTx)
  ELSE
    LET changeAddresses == IF a.changeAddresses = <<>> THEN a.toAddresses
                           ELSE a.changeAddresses[1]
        feeAssetID == IF a.feeAssetID = <<>> THEN a.assetID ELSE a.feeAssetID[1]
    IN IF a.amount = 0 THEN Outcome("undefined", "", NoAAD, NoTx)
       ELSE
         LET aad == TransferAAD(a.toAddresses, a.fromAddresses, changeAddresses,
                                a.assetID, a.amount, a.fee, feeAssetID)
             success == getMinimumSpendable(utxoArray, aad, a.asOf, a.locktime,
                                            a.threshold)
         IN IF success.error = ""
            THEN Outcome("tx", "", success.aad,
                         BaseTx(getAllOutputs(success.aad), success.aad.inputs))
            ELSE Outcome("throw", success.error, success.aad, NoTx)

\* UTXOSet.buildExportTx on the UTXOs utxoArray with the arguments a
\* (a.assetID is the parameter avaxAssetID)
buildExportTx(utxoArray, a) ==
  LET changeAddresses == IF a.changeAddresses = <<>> THEN a.toAddresses
                         ELSE a.changeAddresses[1]
  IN IF a.amount = 0 THEN Outcome("undefined", "", NoAAD, NoTx)
     ELSE IF a.feeAssetID # <<>> /\ a.feeAssetID[1] # a.assetID
     THEN Outcome("throw", "FeeAssetError", NoAAD, NoTx)
     ELSE
       LET feeAssetID == a.assetID
           destinationChain == IF a.destinationChain = <<>> THEN PlatformChainID
                               ELSE a.destinationChain[1]
           aad == TransferAAD(a.toAddresses, a.fromAddresses, changeAddresses,
                              a.assetID, a.amount, a.fee, feeAssetID)
           success == getMinimumSpendable(utxoArray, aad, a.asOf, a.locktime,
                                          a.threshold)
       IN IF success.error = ""
          THEN Outcome("tx", "", success.aad,
                       ExportTx(destinationChain, success.aad.change,
                                success.aad.inputs, success.aad.outputs))
          ELSE Outcome("throw", success.error, success.aad, NoTx)

(***************************************************************************)
(* The import and staking builders of the UTXOSet (part_000, 399-433 and   *)
(* 542-729).  A delegation fee is a number with a fraction: [int, frac]    *)
(* stands for int + frac/10000, 0 <= frac < 10000.                         *)
(***************************************************************************)
\* PlatformVMConstants.MINSTAKE
MINSTAKE == 2000 * ONEAVAX

\* d > n and d < n for a number d with a fraction and an integer n
NumGt(d, n) == d.int > n \/ (d.int = n /\ d.frac > 0)

NumLt(d, n) == d.int < n

\* _feeCheck(fee, feeAssetID) for a fee asset that may be undefined (<<>>)
feeCheckOptional(feeAmount, feeAssetID) ==
  feeAssetID # <<>> /\ feeCheck(feeAmount, feeAssetID[1])

\* lines 561-564, 624-627, 695-698 (and api.ts 978-981, 1042-1045,
\* 1111-1114): the stake window is refused
WindowError(startTime, endTime, now) ==
  startTime < now \/ endTime <= startTime

\* new ImportTx(networkid, blockchainid, sourceChain, outs, ins, memo,
\* importIns)
ImportTx(sourceChain, outs, ins, importIns) ==
  [txtype |-> "ImportTx", outs |-> SortOutputs(outs), ins |-> SortInputs(ins),
   exportOuts |-> <<>>, destinationChain |-> <<sourceChain>>,
   stakeOuts |-> <<>>, importIns |-> importIns, stake |-> <<>>]

\* new AddSubnetValidatorTx / AddDelegatorTx / AddValidatorTx(networkid,
\* blockchainid, outs, ins, memo, nodeID, startTime, endTime, stakeAmount or
\* weight, stakeOuts, rewardAddress, delegationFee)
StakeTx(txtype, outs, ins, stakeOuts, a) ==
  [txtype |-> txtype, outs |-> SortOutputs(outs), ins |-> SortInputs(ins),
   exportOuts |-> <<>>, destinationChain |-> <<>>,
   stakeOuts |-> stakeOuts, importIns |-> <<>>,
   stake |-> <<[nodeID |-> a.nodeID, startTime |-> a.startTime,
                endTime |-> a.endTime, amount |-> a.amount,
                rewardAddress |-> IF txtype = "AddSubnetValidatorTx" THEN <<>>
                                  ELSE <<a.rewardAddress>>,
                delegationFee |-> IF txtype = "AddValidatorTx"
                                  THEN <<a.delegationFee>> ELSE <<>>]>>]

\* the AAD of lines 629-637 and 708-716
StakeAAD(a) ==
  LET aad == AssetAmountDestination(a.fromAddresses, a.fromAddresses,
                                    a.changeAddresses)
  IN IF a.assetID = a.feeAssetID[1]
     THEN addAssetAmount(aad, a.assetID, a.amount, a.fee)
     ELSE IF feeCheck(a.fee, a.feeAssetID[1])
          THEN addAssetAmount(addAssetAmount(aad, a.assetID, a.amount, 0),
                              a.feeAssetID[1], 0, a.fee)
          ELSE addAssetAmount(aad, a.assetID, a.amount, 0)

\* a selection whose change outputs are passed on as stake outputs as well
StakeSelectedChangeStaked(utxoArray, txtype, a) ==
  LET success == getMinimumSpendable(utxoArray, StakeAAD(a), a.asOf, 0, 1)
  IN IF success.error = ""
     THEN Outcome("tx", "", success.aad,
                  StakeTx(txtype, <<>>, success.aad.inputs,
                          getAllOutputs(success.aad), a))
     ELSE Outcome("throw", success.error, success.aad, NoTx)

\* lines 639-649 and 718-728: the selection and the transaction built on it
StakeSelected(utxoArray, txtype, a) ==
  LET success == getMinimumSpendable(utxoArray, StakeAAD(a), a.asOf, 0, 1)
  IN IF success.error = ""
     THEN Outcome("tx", "", success.aad,
                  StakeTx(txtype, success.aad.change, success.aad.inputs,
                          success.aad.outputs, a))
     ELSE Outcome("throw", success.error, success.aad, NoTx)

\* UTXOSet.buildImportTx on the UTXOs utxoArray with the arguments a
buildImportTx(utxoArray, a) ==
  LET sourceChain == IF a.destinationChain = <<>> THEN PlatformChainID
                     ELSE a.destinationChain[1]
  IN IF feeCheckOptional(a.fee, a.feeAssetID)
     THEN LET aad == addAssetAmount(
                       AssetAmountDestination(a.fromAddresses, a.fromAddresses,
                                              a.fromAddresses),
                       a.feeAssetID[1], 0, a.fee)
              success == getMinimumSpendable(utxoArray, aad, a.asOf, 0, 1)
          IN IF success.error = ""
             THEN Outcome("tx", "", success.aad,
                          ImportTx(sourceChain, getAllOutputs(success.aad),
                                   success.aad.inputs, a.importIns))
             ELSE Outcome("throw", success.error, success.aad, NoTx)
     ELSE Outcome("tx", "", NoAAD, ImportTx(sourceChain, <<>>, <<>>, a.importIns))

\* UTXOSet.buildAddSubnetValidatorTx (a.amount is the weight, a.now the
\* value of UnixNow() at line 561)
buildAddSubnetValidatorTx(utxoArray, a) ==
  IF WindowError(a.startTime, a.endTime, a.now)
  THEN Outcome("throw", "StakeWindowError", NoAAD, NoTx)
  ELSE IF feeCheckOptional(a.fee, a.feeAssetID)
  THEN LET aad == addAssetAmount(
                    AssetAmountDestination(a.fromAddresses, a.fromAddresses,
                                           a.changeAddresses),
                    a.feeAssetID[1], 0, a.fee)
           success == getMinimumSpendable(utxoArray, aad, a.asOf, 0, 1)
       IN IF success.error = ""
          THEN Outcome("tx", "", success.aad,
                       StakeTx("AddSubnetValidatorTx", getAllOutputs(success.aad),
                               success.aad.inputs, <<>>, a))
          ELSE Outcome("throw", success.error, success.aad, NoTx)
  ELSE Outcome("tx", "", NoAAD,
               StakeTx("AddSubnetValidatorTx", <<>>, <<>>, <<>>, a))

\* UTXOSet.buildAddDelegatorTx (a.amount is the stake amount, a.assetID the
\* parameter avaxAssetID); feeAssetID.toString fails on undefined
buildAddDelegatorTx(utxoArray, a) ==
  IF WindowError(a.startTime, a.endTime, a.now)
  THEN Outcome("throw", "StakeWindowError", NoAAD, NoTx)
  ELSE IF a.feeAssetID = <<>>
  THEN Outcome("throw", "TypeError", NoAAD, NoTx)
  ELSE StakeSelected(utxoArray, "AddDelegatorTx", a)

\* the checks of the validator's stake that compare the whole part of the
\* delegation fee only
ValidatorErrorWholeFee(a) ==
  IF a.amount < MINSTAKE THEN "StakeAmountError"
  ELSE IF a.delegationFee.int > 100 \/ a.delegationFee.int < 0
  THEN "DelegationFeeError"
  ELSE ""

\* lines 700-706: the error the validator's stake amount or delegation fee
\* raises ("" when they pass)
ValidatorError(a) ==
  IF a.amount < MINSTAKE THEN "StakeAmountError"
  ELSE IF NumGt(a.delegationFee, 100) \/ NumLt(a.delegationFee, 0)
  THEN "DelegationFeeError"
  ELSE ""

\* UTXOSet.buildAddValidatorTx
buildAddValidatorTx(utxoArray, a) ==
  IF WindowError(a.startTime, a.endTime, a.now)
  THEN Outcome("throw", "StakeWindowError", NoAAD, NoTx)
  ELSE IF ValidatorError(a) # ""
  THEN Outcome("throw", ValidatorError(a), NoAAD, NoTx)
  ELSE IF a.feeAssetID = <<>>
  THEN Outcome("throw", "TypeError", NoAAD, NoTx)
  ELSE StakeSelected(utxoArray, "AddValidatorTx", a)

(***************************************************************************)
(* The inputs of the model.                                                *)
(***************************************************************************)
\* The UTXOs a set is filled from, each as UTXO.fromBuffer decodes it:
\*   1: 2 of asset 1, one owner;  2: 1 of asset 1, owners 1 and 2, threshold 2;
\*   3: 3 of asset 1, locked until 1, threshold 0;  4: 1 of asset 2;
\*   5: an output of asset 1 that bears no amount;
\*   6: 1 of asset 1, owner 2, locked until 1;  7: 2 of asset 2
UTXOCatalog ==
  { UTXOFromBuffer(1, 1, SECPXFEROUTPUTID, 2, 0, 1, <<1>>),
    UTXOFromBuffer(2, 1, SECPXFEROUTPUTID, 1, 0, 2, <<2, 1>>),
    UTXOFromBuffer(3, 1, SECPXFEROUTPUTID, 3, 1, 0, <<1>>),
    UTXOFromBuffer(4, 2, SECPXFEROUTPUTID, 1, 0, 1, <<1>>),
    UTXOFromBuffer(5, 1, SECPOWNEROUTPUTID, 0, 0, 1, <<1>>),
    UTXOFromBuffer(6, 1, SECPXFEROUTPUTID, 1, 1, 1, <<2>>),
    UTXOFromBuffer(7, 2, SECPXFEROUTPUTID, 2, 0, 1, <<1>>) }

\* destination addresses, change addresses (<<>>: the destinations), locktime
\* and threshold of the outputs to create
OutArgs ==
  { [toAddresses |-> <<3>>, changeAddresses |-> <<>>,
     locktime |-> 0, threshold |-> 1],
    [toAddresses |-> <<3, 2>>, changeAddresses |-> << <<1>> >>,
     locktime |-> 1, threshold |-> 2],
    [toAddresses |-> <<3>>, changeAddresses |-> << <<2, 1>> >>,
     locktime |-> 0, threshold |-> 2] }

\* the asset to transfer and the asset the fee is burned in (<<>>: the same)
AssetArgs ==
  { [assetID |-> 1, feeAssetID |-> <<>>],
    [assetID |-> 1, feeAssetID |-> <<2>>],
    [assetID |-> 2, feeAssetID |-> <<>>] }

\* the argument lists of buildBaseTx and buildExportTx
BuildArgs ==
  { [amount |-> am, assetID |-> as.assetID, toAddresses |-> o.toAddresses,
     fromAddresses |-> fr, changeAddresses |-> o.changeAddresses,
     destinationChain |-> <<>>,
     fee |-> f, feeAssetID |-> as.feeAssetID, asOf |-> t,
     locktime |-> o.locktime, threshold |-> o.threshold] :
    am \in 0..3, as \in AssetArgs, o \in OutArgs,
    fr \in {<<1>>, <<1, 1>>, <<2, 1>>}, f \in 0..1, t \in 1..2 }

NoArgs ==
  [amount |-> 0, assetID |-> 0, toAddresses |-> <<>>, fromAddresses |-> <<>>,
   changeAddresses |-> <<>>, destinationChain |-> <<>>, fee |-> 0,
   feeAssetID |-> <<>>, asOf |-> 0, locktime |-> 0, threshold |-> 0]

(***************************************************************************)
(* The UTXO set and its builders as a state machine.                       *)
(*   utxos: the UTXOs of the set, in the order getAllUTXOs() returns them  *)
(*   last:  the call that has returned last, with its arguments and its    *)
(*          outcome, until the caller has taken the outcome ("idle")       *)
(* A builder of the set runs when the outcome of the call before it has    *)
(* been taken: the library runs one such operation at a time.              *)
(***************************************************************************)
Record(op, a, out) ==
  [op |-> op, args |-> a, status |-> out.status, error |-> out.error,
   aad |-> out.aad, tx |-> out.tx, value |-> <<>>]

Idle == Record("idle", NoArgs, Outcome("", "", NoAAD, NoTx))

FacadeInit ==
  /\ AVAXAssetID = <<>>
  /\ fee = <<>>
  /\ pending = EmptyBag
  /\ db = <<>>

Init ==
  /\ utxos = <<>>
  /\ last = Idle
  /\ FacadeInit

\* UTXOSet.add(utxo): a UTXO whose ID the set does not hold is appended (the
\* outcome of a call made on the set before is not kept)
Add(u) ==
  /\ Len(utxos) < MaxUTXOs
  /\ \A i \in 1..Len(utxos) : utxos[i].txid # u.txid
  /\ utxos' = Append(utxos, u)
  /\ last' = Idle
  /\ UNCHANGED <<AVAXAssetID, fee, pending, db>>

BuildBaseTx(a) ==
  /\ last = Idle
  /\ last' = Record("buildBaseTx", a, buildBaseTx(utxos, a))
  /\ UNCHANGED <<utxos, AVAXAssetID, fee, pending, db>>

BuildExportTx(a) ==
  /\ last = Idle
  /\ last' = Record("buildExportTx", a, buildExportTx(utxos, a))
  /\ UNCHANGED <<utxos, AVAXAssetID, fee, pending, db>>

\* the caller takes the outcome of the call
Take ==
  /\ last # Idle
  /\ last' = Idle
  /\ UNCHANGED <<utxos, AVAXAssetID, fee, pending, db>>

Next ==
  \/ \E u \in UTXOCatalog : Add(u)
  \/ \E a \in BuildArgs : BuildBaseTx(a)
  \/ \E a \in BuildArgs : BuildExportTx(a)
  \/ Take

Spec == Init /\ [][Next]_vars

(***************************************************************************)
(* Properties of coin selection and of the UTXOSet builders.               *)
(***************************************************************************)
\* a builder has returned and the caller has not yet taken its outcome
Built == last.op \in {"buildBaseTx", "buildExportTx"}

\* the builder has returned a transaction: getMinimumSpendable succeeded
Succeeded == Built /\ last.status = "tx"

\* the UTXO of the set an input refers to
UTXOOf(xi) == CHOOSE u \in Range(utxos) : u.txid = xi.txid

Inputs == Range(last.aad.inputs)

\* candidate address lists and times for the owner sets of the UTXOs
CandidateLists == {<<>>, <<1>>, <<2>>, <<1, 1>>, <<2, 1>>, <<1, 2, 3>>}

\* the sum of the amounts of the elements of the asset in a list of
\* transferable inputs (field amount) or outputs (field output.amount)
RECURSIVE InputSum(_, _)
InputSum(ins, assetID) ==
  IF ins = <<>> THEN 0
  ELSE (IF Head(ins).assetid = assetID THEN Head(ins).amount ELSE 0)
       + InputSum(Tail(ins), assetID)

RECURSIVE OutputSum(_, _)
OutputSum(outs, assetID) ==
  IF outs = <<>> THEN 0
  ELSE (IF Head(outs).assetid = assetID THEN Head(outs).output.amount ELSE 0)
       + OutputSum(Tail(outs), assetID)

OutputsOf(outs, assetID) == SelectSeq(outs, LAMBDA o : o.assetid = assetID)

StrictlyAscending(s) == \A i \in 1..(Len(s) - 1) : s[i] < s[i + 1]

\* C1 (as claimed): locked outputs are never spent: an owner set of the UTXO
\* set never meets the threshold at a time asOf <= locktime, whatever the
\* candidates, and no input selected refers to a UTXO with asOf <= locktime.
C1_LockedNeverSpent ==
  /\ \A u \in Range(utxos) : \A c \in CandidateLists : \A t \in 0..2 :
       t <= u.output.owners.locktime => ~meetsThreshold(u.output.owners, c, t)
  /\ Built => \A xi \in Inputs :
       last.args.asOf > UTXOOf(xi).output.owners.locktime

\* C2: fee conservation: after a successful selection, for every asset of
\* the AAD the amounts of its inputs add up to its destination output plus
\* its change output plus the burn requested, the amount target being met
\* exactly and the burn target being met exactly.
C2_FeeConservation ==
  Succeeded =>
    \A k \in 1..Len(last.aad.amounts) :
      LET am == last.aad.amounts[k]
      IN /\ InputSum(last.aad.inputs, am.assetid)
              = OutputSum(last.aad.outputs, am.assetid)
                + OutputSum(last.aad.change, am.assetid) + am.burn
         /\ OutputSum(last.aad.outputs, am.assetid) = am.amount
         /\ InputSum(last.tx.ins, am.assetid)
              = OutputSum(last.tx.outs, am.assetid)
                + OutputSum(last.tx.exportOuts, am.assetid) + am.burn

\* a selection that spent two UTXOs of one asset, burned a fee and left change
C2_Witness ==
  /\ Succeeded
  /\ \E k \in 1..Len(last.aad.amounts) :
       /\ last.aad.amounts[k].burn > 0
       /\ last.aad.amounts[k].change > 0
       /\ Len(OutputsOf(last.aad.change, last.aad.amounts[k].assetid)) = 1
  /\ Len(last.aad.inputs) >= 2

\* C3 (as claimed): the signature indices of every input constructed by the
\* selection are strictly ascending, without a repeated index.
C3_SigIdxsAscending == Built => \A xi \in Inputs : StrictlyAscending(xi.sigIdxs)

\* C4: threshold respected: every input constructed has at most threshold
\* signature indices, and the output it refers to meets its threshold on the
\* senders and on the spenders selected, at asOf.
C4_ThresholdRespected ==
  Built => \A xi \in Inputs :
    LET owners == UTXOOf(xi).output.owners
    IN /\ Len(xi.sigIdxs) <= owners.threshold
       /\ meetsThreshold(owners, last.aad.senders, last.args.asOf)
       /\ meetsThreshold(owners, xi.sigSources, last.args.asOf)

\* an input with the two signature indices of a threshold-2 output
C4_Witness ==
  /\ Built
  /\ \E xi \in Inputs : xi.sigIdxs = <<0, 1>>
                        /\ UTXOOf(xi).output.owners.threshold = 2

\* the orders in which the UTXOs of a set can have been inserted
Orders(set) ==
  {p \in [1..Len(set) -> Range(set)] :
     \A i, j \in 1..Len(set) : i # j => p[i] # p[j]}

\* C5 (as claimed): sort determinism: buildBaseTx on a set holding the same
\* UTXOs inserted in another order, with the same arguments, has the same
\* outcome and returns a transaction of the same bytes.
C5_SortDeterminism ==
  last.op = "buildBaseTx" =>
    \A p \in Orders(utxos) :
      LET other == buildBaseTx(p, last.args)
      IN /\ other.status = last.status
         /\ TxToBuffer(other.tx) = TxToBuffer(last.tx)

\* getMinimumSpendable has been called by the builder that returned
Selected == Built /\ last.aad.amounts # <<>>

\* the total amount of the UTXOs i.. of the set that are of the asset, bear an
\* amount and meet the threshold of the senders at asOf
RECURSIVE SpendableTotal(_, _, _, _)
SpendableTotal(i, assetID, senders, asOf) ==
  IF i > Len(utxos) THEN 0
  ELSE (IF /\ utxos[i].assetid = assetID
           /\ utxos[i].output.outputid = SECPXFEROUTPUTID
           /\ meetsThreshold(utxos[i].output.owners, senders, asOf)
        THEN utxos[i].output.amount ELSE 0)
       + SpendableTotal(i + 1, assetID, senders, asOf)

Underfunded ==
  \E k \in 1..Len(last.aad.amounts) :
    SpendableTotal(1, last.aad.amounts[k].assetid, last.aad.senders,
                   last.args.asOf)
      < last.aad.amounts[k].amount + last.aad.amounts[k].burn

\* C6: insufficient funds: the selection returns the insufficient-funds error
\* iff for some asset of the AAD the spendable total of the set is less than
\* amount + burn; the builder then throws that error and returns no
\* transaction, and otherwise it returns one.
C6_InsufficientFunds ==
  Selected =>
    /\ (last.error = "InsufficientFunds") <=> Underfunded
    /\ last.error = "InsufficientFunds" =>
         last.status = "throw" /\ last.tx = NoTx
    /\ last.error # "InsufficientFunds" => last.status = "tx"

\* the error is raised although the set holds enough of the asset, part of
\* it in a UTXO the senders cannot spend at asOf
C6_Witness ==
  /\ Selected
  /\ last.error = "InsufficientFunds"
  /\ last.status = "throw"
  /\ \E k \in 1..Len(last.aad.amounts) :
       LET am == last.aad.amounts[k]
       IN /\ am.spent + am.burned > 0
          /\ \E u \in Range(utxos) :
               /\ u.assetid = am.assetid
               /\ u.output.outputid = SECPXFEROUTPUTID
               /\ ~meetsThreshold(u.output.owners, last.aad.senders,
                                  last.args.asOf)
               /\ u.output.amount + am.spent + am.burned >= am.amount + am.burn

\* s holds the addresses of t in ascending order
SortedFrom(s, t) ==
  /\ Len(s) = Len(t)
  /\ \A i \in 1..(Len(s) - 1) : s[i] <= s[i + 1]
  /\ \A a \in Range(s) \cup Range(t) :
       Cardinality({i \in 1..Len(s) : s[i] = a})
         = Cardinality({i \in 1..Len(t) : t[i] = a})

getDefaultFee == 1

\* getFee() that stores the default fee at every call
getFeeReset(f) == <<getDefaultFee>>

\* getFee(): the field this.fee after the call (lines 133-138)
getFee(f) == IF f = <<>> THEN <<getDefaultFee>> ELSE f

\* UnsignedTx.getInputTotal / getOutputTotal / getBurn of an asset: the
\* outputs are those of the transaction, the exported and the staked ones
\* included, and the burn is what the inputs hold above the outputs
getInputTotal(tx, assetID) == InputSum(tx.ins, assetID)

getOutputTotal(tx, assetID) ==
  OutputSum(tx.outs, assetID) + OutputSum(tx.exportOuts, assetID)
    + OutputSum(tx.stakeOuts, assetID)

getBurn(tx, assetID) == getInputTotal(tx, assetID) - getOutputTotal(tx, assetID)

\* checkGooseEgg that accepts every transaction
checkGooseEggAlways(tx, avaxAssetID) == TRUE

\* checkGooseEgg(utx), avaxAssetID being what getAVAXAssetID() resolves to
\* (lines 180-189)
checkGooseEgg(tx, avaxAssetID) ==
  \/ getBurn(tx, avaxAssetID) <= ONEAVAX * 10
  \/ getBurn(tx, avaxAssetID) <= getOutputTotal(tx, avaxAssetID)

\* lines 934-939 (and the same lines of every other build helper): the
\* outcome of the helper once the UTXOSet builder has returned built
GooseEggChecked(built, avaxAssetID) ==
  IF built.status = "throw" THEN built
  ELSE IF built.status = "undefined"
  THEN Outcome("throw", "TypeError", built.aad, NoTx)
  ELSE IF ~checkGooseEgg(built.tx, avaxAssetID)
  THEN Outcome("throw", "GooseEgg", built.aad, NoTx)
  ELSE built

\* _cleanAddressArray(addresses, caller): the addresses given, or the
\* empty array when none are given (api.ts 1143-1160)
cleanAddressArray(addresses) ==
  IF addresses = <<>> THEN <<>> ELSE addresses[1]

\* lines 914-918: the destination chain after the test of its type: a string
\* is replaced by the decoded PlatformChainID, a Buffer is kept, and
\* anything else (<<>>) is refused
ApiDestinationChain(a) ==
  IF a.destinationChainType = "string" THEN <<PlatformChainID>>
  ELSE IF a.destinationChainType = "Buffer" THEN a.destinationChain
  ELSE <<>>

\* lines 920-932: the arguments the facade passes to UTXOSet.buildExportTx
ExportArgs(a, avaxAssetID, feeNow) ==
  [amount |-> a.amount, assetID |-> avaxAssetID,
   toAddresses |-> a.toAddresses, fromAddresses |-> a.fromAddresses,
   changeAddresses |-> <<cleanAddressArray(a.changeAddresses)>>,
   destinationChain |-> ApiDestinationChain(a),
   fee |-> feeNow, feeAssetID |-> <<avaxAssetID>>, asOf |-> a.asOf,
   locktime |-> a.locktime, threshold |-> a.threshold]

\* PlatformVMAPI.buildExportTx after its `await this.getAVAXAssetID()`
\* (lines 914-939), on the set, with the fee the call of getFee() returns
apiBuildExportTx(set, a, avaxAssetID, feeNow) ==
  IF a.destinationChain = <<>>
  THEN Outcome("throw", "InvalidDestinationChain", NoAAD, NoTx)
  ELSE GooseEggChecked(buildExportTx(set, ExportArgs(a, avaxAssetID, feeNow)),
                       avaxAssetID)

\* the UTXOs the set of a facade call is filled from: 12 and 30 of asset 1
FacadeCatalog ==
  { UTXOFromBuffer(7, 1, SECPXFEROUTPUTID, 12, 0, 1, <<1>>),
    UTXOFromBuffer(8, 1, SECPXFEROUTPUTID, 30, 0, 1, <<1>>) }

\* an argument list of the facade's buildExportTx: the change addresses are
\* an array or, <<>>, left undefined; the destination chain is the ID of a
\* chain, given as a Buffer or as a cb58 string, or, <<>>, left undefined
FacadeCall(am, change, d, type) ==
  [amount |-> am, assetID |-> 0, toAddresses |-> <<3>>,
   fromAddresses |-> <<1>>, changeAddresses |-> change,
   destinationChain |-> d, destinationChainType |-> type,
   fee |-> 0, feeAssetID |-> <<>>,
   asOf |-> 2, locktime |-> 0, threshold |-> 1]

\* the argument lists of the facade's buildExportTx
FacadeArgs ==
  { FacadeCall(am, << <<1>> >>, <<>>, "undefined") : am \in {0, 1, 12} }
    \cup { FacadeCall(am, << <<1>> >>, <<5>>, "Buffer") : am \in {0, 1, 12} }
    \cup { FacadeCall(1, <<>>, <<5>>, "Buffer"),
           FacadeCall(1, << <<1>> >>, <<5>>, "string") }

\* the fees a caller sets
FeeArgs == {0, 11}

Returned(op, v) ==
  [op |-> op, args |-> NoArgs, status |-> "value", error |-> "",
   aad |-> NoAAD, tx |-> NoTx, value |-> v]

\* a call that does not see the stored asset ID
CallUncached(op, a) == [op |-> op, args |-> a, cached |-> <<>>]

Call(op, a) == [op |-> op, args |-> a, cached |-> AVAXAssetID]

\* the suspended calls that wait for an RPC response, and those that resume
\* with the cached value as soon as the caller's synchronous code has run
WaitingRPC == {e \in BagToSet(pending) : e.cached = <<>>}

WaitingCached == {e \in BagToSet(pending) : e.cached # <<>>}

\* getAVAXAssetID(): the cached value is returned, or the request
\* platform.getStakingAssetID is issued (lines 111-113)
ApiGetAVAXAssetID ==
  /\ IF AVAXAssetID # <<>>
     THEN /\ last' = Returned("getAVAXAssetID", AVAXAssetID)
          /\ UNCHANGED pending
     ELSE /\ BagCardinality(pending) < MaxPending
          /\ pending' = pending (+) SetToBag({Call("getAVAXAssetID", NoArgs)})
          /\ UNCHANGED last
  /\ UNCHANGED <<utxos, AVAXAssetID, fee, db>>

\* buildExportTx(utxoset, ...) up to its `await this.getAVAXAssetID()`
\* (lines 904-912)
ApiBuildExportTx(a) ==
  /\ BagCardinality(pending) < MaxPending
  /\ pending' = pending (+) SetToBag({Call("buildExportTx", a)})
  /\ UNCHANGED <<utxos, last, AVAXAssetID, fee, db>>

\* the suspended call e resumes, r being the asset ID of the response (or
\* the cached value): lines 113-116, then the rest of the caller
Resume(e, r) ==
  /\ e \in BagToSet(pending)
  /\ IF e.cached = <<>> THEN WaitingCached = {} ELSE r = e.cached[1]
  /\ pending' = pending (-) SetToBag({e})
  /\ AVAXAssetID' = IF e.cached = <<>> THEN <<r>> ELSE AVAXAssetID
  /\ IF e.op = "getAVAXAssetID"
     THEN /\ last' = Returned("getAVAXAssetID", <<r>>)
          /\ UNCHANGED fee
     ELSE /\ fee' = IF e.args.destinationChain = <<>> THEN fee ELSE getFee(fee)
          /\ last' = [Record("api.buildExportTx",
                             ExportArgs(e.args, r, getFee(fee)[1]),
                             apiBuildExportTx(utxos, e.args, r, getFee(fee)[1]))
                        EXCEPT !.value = <<e.args>>]
  /\ UNCHANGED <<utxos, db>>

\* getFee() (lines 133-138)
GetFee ==
  /\ fee' = getFee(fee)
  /\ last' = Returned("getFee", getFee(fee))
  /\ UNCHANGED <<utxos, AVAXAssetID, pending, db>>

\* setFee(fee) (lines 145-147)
SetFee(f) ==
  /\ fee' = <<f>>
  /\ last' = Returned("setFee", <<f>>)
  /\ UNCHANGED <<utxos, AVAXAssetID, pending, db>>

NextFacade ==
  \/ \E u \in FacadeCatalog : Add(u)
  \/ ApiGetAVAXAssetID
  \/ \E a \in FacadeArgs : ApiBuildExportTx(a)
  \/ \E e \in BagToSet(pending) : \E r \in AssetIDs : Resume(e, r)
  \/ GetFee
  \/ \E f \in FeeArgs : SetFee(f)

SpecFacade == Init /\ [][NextFacade]_vars

(***************************************************************************)
(* Properties of the facade.                                               *)
(***************************************************************************)
\* the facade's buildExportTx has completed, its destination chain valid
ApiBuilt ==
  last.op = "api.buildExportTx" /\ last.args.destinationChain # <<>>

\* the AVAX burned by a transaction and the AVAX of its outputs, counted on
\* its lists (the asset of the facade's call is the AVAX asset)
BurnOf(tx, assetID) ==
  InputSum(tx.ins, assetID)
    - (OutputSum(tx.outs, assetID) + OutputSum(tx.exportOuts, assetID))

OutputTotalOf(tx, assetID) ==
  OutputSum(tx.outs, assetID) + OutputSum(tx.exportOuts, assetID)

GooseEgg(tx, assetID) ==
  /\ BurnOf(tx, assetID) > 10 * ONEAVAX
  /\ BurnOf(tx, assetID) > OutputTotalOf(tx, assetID)

\* C8: goose-egg guard: when the UTXOSet builder has built a transaction,
\* the facade's helper returns it iff its AVAX burn is <= 10*ONEAVAX or <= its
\* AVAX output total, and raises the goose-egg error otherwise; so no
\* transaction the facade returns has a fee > 10*ONEAVAX and > outputTotal.
C8_GooseEggGuard ==
  ApiBuilt =>
    LET built == buildExportTx(utxos, last.args)
    IN /\ built.status = "tx" =>
            IF GooseEgg(built.tx, last.args.assetID)
            THEN last.status = "throw" /\ last.error = "GooseEgg"
                 /\ last.tx = NoTx
            ELSE last.status = "tx" /\ last.tx = built.tx
       /\ last.status = "tx" => ~GooseEgg(last.tx, last.args.assetID)

\* the facade has returned a transaction that burns 11 AVAX, more than
\* 10*ONEAVAX but no more than its outputs hold
C8_Witness ==
  /\ ApiBuilt
  /\ last.status = "tx"
  /\ BurnOf(last.tx, last.args.assetID) = 11
  /\ OutputTotalOf(last.tx, last.args.assetID) >= 11

\* a goose-egg transaction has been refused
C8_Refused == ApiBuilt /\ last.error = "GooseEgg"

\* C9 (as claimed): the cache is write-once: once the facade has stored an
\* AVAX asset ID or a fee, no step changes the stored value.
C9_WriteOnce ==
  [][/\ AVAXAssetID # <<>> => AVAXAssetID' = AVAXAssetID
     /\ fee # <<>> => fee' = fee]_vars

\* C9 (amended): a stored value is never cleared; a stored fee changes only
\* when setFee stores its argument (getFee and the builders leave it); a stored
\* AVAX asset ID changes only when a getStakingAssetID request completes that
\* was issued while no asset ID was stored (a call made after the value is
\* stored leaves it).
C9_CacheKept ==
  [][/\ AVAXAssetID # <<>> => AVAXAssetID' # <<>>
     /\ fee # <<>> => fee' # <<>>
     /\ (fee # <<>> /\ fee' # fee) =>
          last'.op = "setFee" /\ last'.value = fee'
     /\ (AVAXAssetID # <<>> /\ AVAXAssetID' # AVAXAssetID) =>
          \E e \in WaitingRPC : pending' = pending (-) SetToBag({e})]_vars

\* getFee has returned the fee setFee stored over the default, the asset ID
\* being stored while a request issued before is still in flight
C9_Witness ==
  /\ last.op = "getFee"
  /\ last.value = <<11>>
  /\ fee = <<11>>
  /\ AVAXAssetID # <<>>
  /\ WaitingRPC # {}

\* C10 (as claimed): zero-amount transfer is a no-op: with amount 0 the
\* UTXOSet builders return the no-transaction value without selecting a UTXO,
\* and the facade's builder returns it too and raises no error.
C10_ZeroAmountNoOp ==
  (ApiBuilt /\ last.args.amount = 0) =>
    /\ buildExportTx(utxos, last.args).status = "undefined"
    /\ buildExportTx(utxos, last.args).aad.inputs = <<>>
    /\ buildBaseTx(utxos, last.args).status = "undefined"
    /\ buildBaseTx(utxos, last.args).aad.inputs = <<>>
    /\ last.status = "undefined"
    /\ last.error = ""

(***************************************************************************)
(* Properties of the owner sets.                                           *)
(***************************************************************************)
\* the list c without the later occurrences of an address it repeats
RECURSIVE RemoveDuplicates(_)
RemoveDuplicates(c) ==
  IF c = <<>> THEN <<>>
  ELSE LET front == RemoveDuplicates(SubSeq(c, 1, Len(c) - 1))
       IN IF c[Len(c)] \in Range(front) THEN front
          ELSE Append(front, c[Len(c)])

\* C14 (as claimed): duplicate candidates count once: for every owner set of
\* the UTXO set, every candidate list c and every asOf, getSpenders and
\* meetsThreshold give for c what they give for c without its duplicates.
C14_DuplicatesCountOnce ==
  \A u \in Range(utxos) : \A c \in CandidateLists : \A t \in 0..2 :
    /\ getSpenders(u.output.owners, c, t)
         = getSpenders(u.output.owners, RemoveDuplicates(c), t)
    /\ meetsThreshold(u.output.owners, c, t)
         = meetsThreshold(u.output.owners, RemoveDuplicates(c), t)

(***************************************************************************)
(* The import and staking builders as a state machine: the builders of the *)
(* UTXOSet and the staking helpers of the facade (api.ts, 958-1138).  One  *)
(* helper of the facade is in flight at a time, as its callers await it.   *)
(***************************************************************************)
\* the UTXOs the set of a staking call is filled from (AVAX, one owner)
StakeCatalog ==
  { UTXOFromBuffer(11, 1, SECPXFEROUTPUTID, MINSTAKE, 0, 1, <<1>>),
    UTXOFromBuffer(12, 1, SECPXFEROUTPUTID, MINSTAKE - 500, 0, 1, <<1>>),
    UTXOFromBuffer(13, 1, SECPXFEROUTPUTID, 600, 0, 1, <<1>>) }

\* stake windows with the clock read by the facade (nowApi) and, after it,
\* by the builder of the UTXOSet (now): the first is wholly in the future
StakeWindows ==
  { [startTime |-> 3, endTime |-> 4, nowApi |-> 2, now |-> 2],
    [startTime |-> 2, endTime |-> 3, nowApi |-> 2, now |-> 2],
    [startTime |-> 1, endTime |-> 3, nowApi |-> 2, now |-> 2],
    [startTime |-> 3, endTime |-> 3, nowApi |-> 2, now |-> 2],
    [startTime |-> 2, endTime |-> 3, nowApi |-> 2, now |-> 3] }

FutureWindow == [startTime |-> 3, endTime |-> 4, nowApi |-> 2, now |-> 2]

\* delegation fees: -0.5, 0, 10, 100 and 100.0001
DelegationFees ==
  { [int |-> 0 - 1, frac |-> 5000], [int |-> 0, frac |-> 0],
    [int |-> 10, frac |-> 0], [int |-> 100, frac |-> 0],
    [int |-> 100, frac |-> 1] }

\* the stake amounts, delegation fees and windows of the calls: every amount
\* and fee in the future window, a valid amount and fee in the other windows
StakeCases ==
  { c \in [amount : {MINSTAKE - 1, MINSTAKE}, delegationFee : DelegationFees,
           window : StakeWindows] :
      \/ c.window = FutureWindow
      \/ (c.amount = MINSTAKE /\ c.delegationFee = [int |-> 10, frac |-> 0]) }

\* the change addresses of a staking call: one address, none, and three
\* addresses of which two are equal
ChangeArgs == {<<1>>, <<>>, <<2, 1, 1>>}

StakeCall(c, change, feeAmount, feeAssetID) ==
  [amount |-> c.amount, assetID |-> 1, fromAddresses |-> <<1>>,
   changeAddresses |-> change, destinationChain |-> <<>>,
   fee |-> feeAmount, feeAssetID |-> feeAssetID, asOf |-> 2,
   startTime |-> c.window.startTime, endTime |-> c.window.endTime,
   nowApi |-> c.window.nowApi, now |-> c.window.now,
   delegationFee |-> c.delegationFee, nodeID |-> 9, rewardAddress |-> 4,
   importIns |-> <<>>]

\* the argument lists of the staking builders of the UTXOSet
StakeArgs ==
  { StakeCall(c, change, f[1], f[2]) :
      c \in StakeCases, change \in ChangeArgs,
      f \in {<<0, <<1>>>>, <<1, <<1>>>>, <<1, <<>>>>} }

\* the argument lists of the staking helpers of the facade, which set the
\* fee and the assets themselves
ApiStakeArgs ==
  { StakeCall(c, change, 0, <<>>) : c \in StakeCases, change \in ChangeArgs }

\* the inputs imported from another chain: none, or one holding 5 AVAX
ImportIns ==
  { <<>>,
    <<[txid |-> 21, outputidx |-> 0, assetid |-> 1, amount |-> 5,
       sigIdxs |-> <<0>>, sigSources |-> <<1>>]>> }

\* the argument lists of UTXOSet.buildImportTx
ImportArgs ==
  { [amount |-> 0, assetID |-> 1, fromAddresses |-> fr,
     changeAddresses |-> <<>>, destinationChain |-> d,
     fee |-> f, feeAssetID |-> fa, asOf |-> 2,
     startTime |-> 0, endTime |-> 0, nowApi |-> 0, now |-> 0,
     delegationFee |-> [int |-> 0, frac |-> 0], nodeID |-> 0,
     rewardAddress |-> 0, importIns |-> ii] :
    fr \in {<<1>>, <<2>>}, d \in {<<>>, <<5>>}, f \in {0, 1, 3},
    fa \in {<<>>, <<1>>}, ii \in ImportIns }

StakeOps ==
  {"buildAddSubnetValidatorTx", "buildAddDelegatorTx", "buildAddValidatorTx"}

\* the staking builder of the UTXOSet of the given name
StakeBuilder(op, utxoArray, a) ==
  IF op = "buildAddSubnetValidatorTx" THEN buildAddSubnetValidatorTx(utxoArray, a)
  ELSE IF op = "buildAddDelegatorTx" THEN buildAddDelegatorTx(utxoArray, a)
  ELSE buildAddValidatorTx(utxoArray, a)

\* the arguments a staking helper of the facade passes to the builder of the
\* UTXOSet (api.ts 983-994, 1047-1060, 1116-1130)
ApiStakeArgsPassed(a, avaxAssetID, feeNow) ==
  [a EXCEPT !.assetID = avaxAssetID, !.fee = feeNow,
            !.feeAssetID = <<avaxAssetID>>]

\* a staking helper of the facade after its `await this.getAVAXAssetID()`
apiBuildStakeTx(op, set, a, avaxAssetID, feeNow) ==
  IF WindowError(a.startTime, a.endTime, a.nowApi)
  THEN Outcome("throw", "StakeWindowError", NoAAD, NoTx)
  ELSE GooseEggChecked(
         StakeBuilder(op, set, ApiStakeArgsPassed(a, avaxAssetID, feeNow)),
         avaxAssetID)

BuildImportTx(a) ==
  /\ last = Idle
  /\ pending = EmptyBag
  /\ last' = Record("buildImportTx", a, buildImportTx(utxos, a))
  /\ UNCHANGED <<utxos, AVAXAssetID, fee, pending, db>>

BuildStakeTx(op, a) ==
  /\ last = Idle
  /\ pending = EmptyBag
  /\ last' = Record(op, a, StakeBuilder(op, utxos, a))
  /\ UNCHANGED <<utxos, AVAXAssetID, fee, pending, db>>

\* a staking helper of the facade up to its `await this.getAVAXAssetID()`
ApiBuildStakeTx(op, a) ==
  /\ last = Idle
  /\ pending = EmptyBag
  /\ pending' = SetToBag({Call(op, a)})
  /\ UNCHANGED <<utxos, last, AVAXAssetID, fee, db>>

\* the suspended staking helper e resumes with the asset ID r
ResumeStakeTx(e, r) ==
  /\ e \in BagToSet(pending)
  /\ e.cached # <<>> => r = e.cached[1]
  /\ pending' = pending (-) SetToBag({e})
  /\ AVAXAssetID' = IF e.cached = <<>> THEN <<r>> ELSE AVAXAssetID
  /\ fee' = IF WindowError(e.args.startTime, e.args.endTime, e.args.nowApi)
            THEN fee ELSE getFee(fee)
  /\ last' = [Record("api." \o e.op,
                     ApiStakeArgsPassed(e.args, r, getFee(fee)[1]),
                     apiBuildStakeTx(e.op, utxos, e.args, r, getFee(fee)[1]))
                EXCEPT !.value = <<e.args>>]
  /\ UNCHANGED <<utxos, db>>

NextStake ==
  \/ \E u \in StakeCatalog : Add(u)
  \/ \E a \in ImportArgs : BuildImportTx(a)
  \/ \E op \in StakeOps : \E a \in StakeArgs : BuildStakeTx(op, a)
  \/ \E op \in StakeOps : \E a \in ApiStakeArgs : ApiBuildStakeTx(op, a)
  \/ \E e \in BagToSet(pending) : \E r \in AssetIDs : ResumeStakeTx(e, r)
  \/ Take

SpecStake == Init /\ [][NextStake]_vars

(***************************************************************************)
(* Properties of the import and staking builders.                          *)
(***************************************************************************)
ApiStakeOps == {"api." \o op : op \in StakeOps}

\* a staking builder of the UTXOSet or a staking helper of the facade has
\* returned or thrown
StakeBuilt == last.op \in StakeOps \cup ApiStakeOps

\* the stake window lies in the future of every reading of the clock
WindowInFuture ==
  /\ last.args.startTime > last.args.now
  /\ last.args.startTime > last.args.nowApi
  /\ last.args.endTime > last.args.startTime

\* C11 (as claimed): stake-window validation: a staking builder (UTXOSet or
\* facade) emits a transaction only if startTime > now and endTime >
\* startTime; otherwise it raises the invalid-input error of the window
\* before any coin selection.
C11_StakeWindow ==
  StakeBuilt =>
    /\ last.status = "tx" => WindowInFuture
    /\ ~WindowInFuture =>
         /\ last.status = "throw"
         /\ last.error = "StakeWindowError"
         /\ last.aad = NoAAD

\* the delegation fee lies outside [0, 100], in units of 1/10000
FeeOutOfRange(d) == 10000 * d.int + d.frac \notin 0..1000000

ValidatorBuilt ==
  last.op \in {"buildAddValidatorTx", "api.buildAddValidatorTx"}

\* C12: buildAddValidatorTx (UTXOSet and facade) raises an invalid-input
\* error and emits no transaction whenever stakeAmount < MINSTAKE or the
\* delegation fee is outside [0, 100], before any coin selection.
C12_ValidatorStake ==
  (ValidatorBuilt /\ (last.args.amount < MINSTAKE
                      \/ FeeOutOfRange(last.args.delegationFee))) =>
    /\ last.status = "throw"
    /\ last.tx = NoTx
    /\ last.aad = NoAAD
    /\ last.error \in {"StakeWindowError", "StakeAmountError",
                       "DelegationFeeError"}

\* a delegation fee of 100.0001 is refused although the window is in the
\* future, the stake is MINSTAKE and the set holds enough to stake it
C12_Witness ==
  /\ last.op = "buildAddValidatorTx"
  /\ last.args.delegationFee = [int |-> 100, frac |-> 1]
  /\ last.args.amount = MINSTAKE
  /\ WindowInFuture
  /\ last.error = "DelegationFeeError"
  /\ SpendableTotal(1, last.args.assetID, last.args.fromAddresses,
                    last.args.asOf) >= MINSTAKE + last.args.fee

\* C13 (as claimed): import fee source: buildImportTx succeeds whenever the
\* imported inputs together with the local spendable UTXOs of the fee asset
\* cover the fee, also when the local UTXOs alone do not.
C13_ImportFeeSource ==
  (/\ last.op = "buildImportTx"
   /\ last.args.feeAssetID # <<>>
   /\ InputSum(last.args.importIns, last.args.feeAssetID[1])
        + SpendableTotal(1, last.args.feeAssetID[1], last.args.fromAddresses,
                         last.args.asOf)
        >= last.args.fee) =>
    last.status = "tx"

(***************************************************************************)
(* Properties of the owner sets the builders emit.                         *)
(***************************************************************************)
\* the outputs of the transaction a builder has returned: its outputs, its
\* exported outputs and its staked outputs
EmittedOutputs ==
  IF last.status = "tx"
  THEN Range(last.tx.outs) \cup Range(last.tx.exportOuts)
         \cup Range(last.tx.stakeOuts)
  ELSE {}

\* C15 (as claimed): owner-set threshold invariant: every owner set of an
\* output a builder emits has threshold <= number of addresses.
C15_ThresholdWithinAddresses ==
  \A o \in EmittedOutputs :
    o.output.owners.threshold <= Len(o.output.owners.addresses)

\* the addresses OutputOwners.toBuffer writes after locktime, threshold and
\* the number of addresses
SerializedAddresses(owners) ==
  SubSeq(OwnersToBuffer(owners), 4, Len(OwnersToBuffer(owners)))

\* C16 (as claimed): owner sorting: the address list of every owner set a
\* builder emits is strictly ascending (sorted, no two addresses equal), in
\* memory and in the serialized bytes.
C16_OwnersStrictlyAscending ==
  \A o \in EmittedOutputs :
    /\ StrictlyAscending(o.output.owners.addresses)
    /\ StrictlyAscending(SerializedAddresses(o.output.owners))

(***************************************************************************)
(* The order of the serialized outputs.                                    *)
(***************************************************************************)
\* the lists of TransferableOutputs in the bytes of the transaction built,
\* as UnsignedTx.toBuffer writes them: the outputs, and the export outputs
\* as ExportTx.toBuffer sorts them
SerializedOutputLists ==
  IF Succeeded \/ (last.status = "returned" /\ last.tx # NoTx)
  THEN {last.tx.outs, SortOutputs(last.tx.exportOuts), last.tx.stakeOuts}
  ELSE {}

\* the key outputTypeID(4) output bytes, the one of OutputOwners.comparator
OutputKey(xo) == <<xo.output.outputid>> \o AmountOutputToBuffer(xo.output)

RECURSIVE UIntBE(_, _)
UIntBE(n, w) ==
  IF w = 0 THEN <<>> ELSE Append(UIntBE(n \div 256, w - 1), n % 256)

\* readUInt32BE / fromBufferToBN of the w bytes of a buffer from an offset
\* (offsets count from 0)
RECURSIVE ReadUIntBE(_, _, _)
ReadUIntBE(bytes, offset, w) ==
  IF w = 0 THEN 0
  ELSE 256 * ReadUIntBE(bytes, offset, w - 1) + bytes[offset + w]

\* OutputOwners.toBuffer in bytes: locktime(8) threshold(4) numaddrs(4) and
\* the addresses of 20 bytes each, sorted
OwnersBytes(owners) ==
  LET f == OwnersToBuffer(owners)
  IN  UIntBE(f[1], 8) \o UIntBE(f[2], 4) \o UIntBE(f[3], 4)
        \o ConcatBuffers([k \in 1..(Len(f) - 3) |-> UIntBE(f[k + 3], 20)])

\* StandardAmountOutput.toBuffer in bytes: amount(8) then the owners
AmountOutputBytes(output) == UIntBE(output.amount, 8) \o OwnersBytes(output.owners)

\* the loop of OutputOwners.fromBuffer: n addresses are read from the
\* offset, each read returning the offset behind its 20 bytes
RECURSIVE ReadAddresses(_, _, _, _)
ReadAddresses(bytes, offset, n, addresses) ==
  IF n = 0 THEN [addresses |-> addresses, offset |-> offset]
  ELSE ReadAddresses(bytes, offset + 20, n - 1,
                     Append(addresses, ReadUIntBE(bytes, offset, 20)))

\* OutputOwners.fromBuffer(bytes, offset): the owners read and the offset
\* returned
OwnersParse(bytes, offset) ==
  LET locktime  == ReadUIntBE(bytes, offset, 8)
      threshold == ReadUIntBE(bytes, offset + 8, 4)
      numaddrs  == ReadUIntBE(bytes, offset + 12, 4)
      read      == ReadAddresses(bytes, offset + 16, numaddrs, <<>>)
  IN  [owners |-> OwnersFromBuffer(locktime, threshold, read.addresses),
       amount |-> 0, offset |-> read.offset]

\* a reader of amount outputs that reads the owners from where the amount is
AmountOutputParseNoAdvance(bytes, offset) ==
  [OwnersParse(bytes, offset) EXCEPT !.amount = ReadUIntBE(bytes, offset, 8)]

\* StandardAmountOutput.fromBuffer(outbuff, offset)
AmountOutputParse(bytes, offset) ==
  [OwnersParse(bytes, offset + 8) EXCEPT !.amount = ReadUIntBE(bytes, offset, 8)]

\* toBuffer and fromBuffer of an output of either class
OutputBytes(output) ==
  IF IsAmountOutput(output) THEN AmountOutputBytes(output)
  ELSE OwnersBytes(output.owners)

OutputParse(outputid, bytes, offset) ==
  IF outputid = SECPXFEROUTPUTID THEN AmountOutputParse(bytes, offset)
  ELSE OwnersParse(bytes, offset)

\* the owner sets and amount outputs written: amounts and locktimes of one
\* and of several bytes, address lists given in any order
CodecAddresses ==
  {<<>>, <<1>>, <<2, 1>>, <<1, 1>>, <<3, 1, 2>>, <<1, 2, 3>>, <<300, 2>>}

CodecOutputs ==
  { SelectOutputClass(id, IF id = SECPXFEROUTPUTID THEN am ELSE 0, ad, lt, th) :
      id \in {SECPXFEROUTPUTID, SECPOWNEROUTPUTID}, am \in {0, 1, 70000},
      ad \in CodecAddresses, lt \in {0, 258}, th \in 0..2 }

\* the bytes a buffer holds before and after the ones of the output
CodecPadding == {<<>>, <<255, 1, 0>>}

\* the buffers read: an amount, a locktime, a threshold and a list of
\* addresses in the order in which the buffer holds them
CodecBuffers ==
  { [outputid |-> id,
     bytes |-> (IF id = SECPXFEROUTPUTID THEN UIntBE(am, 8) ELSE <<>>)
                 \o UIntBE(lt, 8) \o UIntBE(th, 4) \o UIntBE(Len(ad), 4)
                 \o ConcatBuffers([k \in 1..Len(ad) |-> UIntBE(ad[k], 20)]),
     addresses |-> ad] :
      id \in {SECPXFEROUTPUTID, SECPOWNEROUTPUTID}, am \in {0, 70000},
      ad \in CodecAddresses, lt \in {0, 258}, th \in 0..3 }

Codec(op, v) == [Idle EXCEPT !.op = op, !.status = "returned", !.value = v]

\* x.toBuffer(), the bytes being copied into a buffer behind pre
ToBuffer(x, pre, post) ==
  /\ last = Idle
  /\ last' = Codec("toBuffer", <<x, pre \o OutputBytes(x) \o post, Len(pre)>>)
  /\ UNCHANGED <<utxos, AVAXAssetID, fee, pending, db>>

\* y.fromBuffer(bytes, offset) on the bytes written, y being of x's class
FromBuffer ==
  /\ last.op = "toBuffer"
  /\ last' = Codec("fromBuffer",
                   <<last.value[1],
                     OutputParse(last.value[1].outputid, last.value[2],
                                 last.value[3]),
                     last.value[3]>>)
  /\ UNCHANGED <<utxos, AVAXAssetID, fee, pending, db>>

\* a buffer is received
Receive(b) ==
  /\ last = Idle
  /\ last' = Codec("received", <<b>>)
  /\ UNCHANGED <<utxos, AVAXAssetID, fee, pending, db>>

\* y.fromBuffer(b) followed by y.toBuffer()
Reencode ==
  /\ last.op = "received"
  /\ LET b == last.value[1]
         y == OutputParse(b.outputid, b.bytes, 0)
     IN  last' = Codec("reencoded",
                       <<b, OutputBytes([outputid |-> b.outputid,
                                         amount |-> y.amount,
                                         owners |-> y.owners])>>)
  /\ UNCHANGED <<utxos, AVAXAssetID, fee, pending, db>>

NextCodec ==
  \/ \E x \in CodecOutputs, pre \in CodecPadding, post \in CodecPadding :
       ToBuffer(x, pre, post)
  \/ FromBuffer
  \/ \E b \in CodecBuffers : Receive(b)
  \/ Reencode
  \/ Take

SpecCodec == Init /\ [][NextCodec]_vars

\* a buffer is canonical when its addresses are in ascending order
Canonical(b) ==
  \A i \in 1..(Len(b.addresses) - 1) : b.addresses[i] <= b.addresses[i + 1]

\* C18: fromBuffer(toBuffer(x)) restores the locktime, the threshold, the
\* amount and the address list of x and returns the offset just past the
\* bytes of x; toBuffer(fromBuffer(b)) is b for every canonical b
C18_CodecRoundTrip ==
  /\ last.op = "fromBuffer" =>
       LET x == last.value[1]
           y == last.value[2]
       IN  /\ y.owners = x.owners
           /\ y.amount = x.amount
           /\ y.offset = last.value[3] + Len(OutputBytes(x))
  /\ last.op = "reencoded" /\ Canonical(last.value[1]) =>
       last.value[2] = last.value[1].bytes

\* an amount output of several addresses, with an amount and a locktime of
\* more than one byte, has been read back from an offset that is not 0
C18_Witness ==
  /\ last.op = "fromBuffer"
  /\ IsAmountOutput(last.value[1])
  /\ Len(last.value[1].owners.addresses) = 3
  /\ last.value[1].amount = 70000
  /\ last.value[1].owners.locktime = 258
  /\ last.value[3] = 3
  /\ last.value[2].offset = 3 + 8 + 16 + 60

(***************************************************************************)
(* Signing (UnsignedTx.sign) and a state machine that signs what the       *)
(* builders of the UTXO set return.                                        *)
(***************************************************************************)
\* createHash('sha256').update(txbuff).digest(): the digest stands for the
\* bytes it was computed from
Sha256(bytes) == <<"sha256", bytes>>

\* kc.getKey(address).sign(msg): the signature of msg by the key of address
KeyChainSign(address, msg) == [signer |-> address, msg |-> msg]

\* this.transaction.sign(msg, kc): one credential per input, in the order of
\* the inputs, with one signature per signature index, made by the key of
\* the address recorded with the index
BaseTxSign(tx, msg, kc) ==
  [k \in 1..Len(tx.ins) |->
     [sigs |-> [j \in 1..Len(tx.ins[k].sigIdxs) |->
                  KeyChainSign(tx.ins[k].sigSources[j], msg)]]]

\* the transaction after toBuffer: ExportTx.toBuffer leaves the export
\* outputs sorted
AfterToBuffer(tx) == [tx EXCEPT !.exportOuts = SortOutputs(tx.exportOuts)]

\* new Tx(unsignedTx, credentials)
Tx(unsignedTx, credentials) ==
  [unsignedTx |-> unsignedTx, credentials |-> credentials]

\* UnsignedTx.sign(kc): the outcome is the Tx, or a throw when the key chain
\* lacks the key of a signer
UnsignedTxSign(tx, kc) ==
  LET txbuff == TxToBuffer(tx)
      msg    == Sha256(txbuff)
  IN  IF \A k \in 1..Len(tx.ins) : Range(tx.ins[k].sigSources) \subseteq kc
      THEN [status |-> "tx", msg |-> msg,
            tx |-> Tx(AfterToBuffer(tx), BaseTxSign(tx, msg, kc))]
      ELSE [status |-> "throw", msg |-> msg,
            tx |-> Tx(AfterToBuffer(tx), <<>>)]

\* the key chains: the addresses whose keys they hold
KeyChains == {{1, 2}, {1}}

\* the argument lists of the builders whose transactions are signed
SignArgs ==
  { a \in BuildArgs : /\ a.amount \in 2..3
                      /\ a.fee = 1
                      /\ a.asOf = 2
                      /\ a.locktime = 0 }

\* txu.sign(kc) on the transaction the builder has returned
Sign(kc) ==
  /\ Succeeded
  /\ LET r == UnsignedTxSign(last.tx, kc)
     IN  last' = [last EXCEPT !.op = "sign", !.status = r.status,
                              !.tx = r.tx.unsignedTx,
                              !.value = <<r.tx.credentials, r.msg>>]
  /\ UNCHANGED <<utxos, AVAXAssetID, fee, pending, db>>

NextSign ==
  \/ \E u \in UTXOCatalog : Add(u)
  \/ \E a \in SignArgs : BuildBaseTx(a)
  \/ \E a \in SignArgs : BuildExportTx(a)
  \/ \E kc \in KeyChains : Sign(kc)
  \/ Take

SpecSign == Init /\ [][NextSign]_vars

\* sign has returned a Tx
Signed == last.op = "sign" /\ last.status = "tx"

\* C19: sign hashes the bytes of the transaction; the Tx has one credential
\* per input, credential k belonging to the k-th input in sorted order and
\* holding one signature per signature index of that input, each made over
\* the digest by the owner the index points to; the inputs signed are the
\* ones selected, each with the indices and signers recorded at selection
C19_CredentialsFollowInputs ==
  Signed =>
    LET ins   == last.tx.ins
        creds == last.value[1]
        msg   == last.value[2]
    IN  /\ msg = Sha256(TxToBuffer(last.tx))
        /\ Len(creds) = Len(ins)
        /\ \A k \in 1..(Len(ins) - 1) :
             TransferableInputComparator(ins[k], ins[k + 1]) < 0
        /\ \A k \in 1..Len(ins) :
             /\ Len(creds[k].sigs) = Len(ins[k].sigIdxs)
             /\ \A j \in 1..Len(ins[k].sigIdxs) :
                  /\ creds[k].sigs[j].msg = msg
                  /\ creds[k].sigs[j].signer =
                       UTXOOf(ins[k]).output.owners.addresses[ins[k].sigIdxs[j] + 1]
        /\ Range(ins) = Range(last.aad.inputs)
        /\ Len(ins) = Len(last.aad.inputs)

\* a Tx is returned whose inputs were selected in another order than the
\* sorted one, one of them with two signature indices of different signers
C19_Witness ==
  /\ Signed
  /\ Len(last.tx.ins) >= 2
  /\ last.tx.ins # last.aad.inputs
  /\ \E k \in 1..Len(last.tx.ins) :
       /\ Len(last.tx.ins[k].sigIdxs) = 2
       /\ last.tx.ins[k].sigSources[1] # last.tx.ins[k].sigSources[2]
       /\ Len(last.value[1][k].sigs) = 2

(***************************************************************************)
(* The helpers of the facade against the builders of the UTXOSet.          *)
(***************************************************************************)
\* the arguments of UTXOSet.buildExportTx for the call a of the facade's
\* helper: the fee and the asset of the facade, the change addresses as the
\* caller gave them and the destination chain the caller named (a cb58
\* string being decoded to the ID it stands for)
DirectExportArgs(a, avaxAssetID, feeNow) ==
  [amount |-> a.amount, assetID |-> avaxAssetID,
   toAddresses |-> a.toAddresses, fromAddresses |-> a.fromAddresses,
   changeAddresses |-> a.changeAddresses,
   destinationChain |-> a.destinationChain,
   fee |-> feeNow, feeAssetID |-> <<avaxAssetID>>, asOf |-> a.asOf,
   locktime |-> a.locktime, threshold |-> a.threshold]

\* C20: a helper of the facade returns a transaction byte-identical to the
\* one the builder of the UTXOSet returns on the same set, with the fee of
\* getFee(), the AVAX asset ID as the fee asset and the same other arguments
C20_FacadeAgreesWithBuilder ==
  /\ ApiBuilt /\ last.status = "tx" =>
       LET direct == buildExportTx(utxos,
                       DirectExportArgs(last.value[1], last.args.assetID,
                                        last.args.fee))
       IN  /\ direct.status = "tx"
           /\ TxToBuffer(direct.tx) = TxToBuffer(last.tx)
  /\ last.op \in ApiStakeOps /\ last.status = "tx" =>
       \E op \in StakeOps :
         /\ last.op = "api." \o op
         /\ StakeBuilder(op, utxos,
                         [last.value[1] EXCEPT
                            !.assetID = last.args.assetID,
                            !.fee = last.args.fee,
                            !.feeAssetID = <<last.args.assetID>>]).tx = last.tx

(***************************************************************************)
(* getUTXOs and the persisted UTXO sets (api.ts 753-787).                  *)
(*   db: the local store, a function from the names that are set to the    *)
(*       arrays of UTXO strings stored under them                          *)
(* A UTXO string stands for the UTXO it encodes and is named by its ID.    *)
(***************************************************************************)
\* UTXOSet.addArray(data) on a set holding the UTXOs of `set`: the UTXOs
\* whose ID the set does not hold are appended
RECURSIVE addArray(_, _)
addArray(set, data) ==
  IF data = <<>> THEN set
  ELSE addArray(IF Head(data) \in Range(set) THEN set
                ELSE Append(set, Head(data)), Tail(data))

MergeRules ==
  {"union", "intersection", "differenceSelf", "symDifference",
   "unionMinusNew", "unionMinusSelf"}

\* the set self.mergeByRule(other, rule) computes
mergeByRule(self, other, rule) ==
  LET union       == addArray(self, other)
      Keep(s, t)  == SelectSeq(s, LAMBDA u : u \in Range(t))
      Minus(s, t) == SelectSeq(s, LAMBDA u : u \notin Range(t))
  IN  IF rule = "union" THEN union
      ELSE IF rule = "intersection" THEN Keep(self, other)
      ELSE IF rule = "differenceSelf" THEN Minus(self, other)
      ELSE IF rule = "symDifference"
        THEN Minus(self, other) \o Minus(other, self)
      ELSE IF rule = "unionMinusNew" THEN Minus(union, other)
      ELSE Minus(union, self)

\* this.db.has(name) and this.db.set(name, data, overwrite): a value that
\* is set is kept unless overwrite is true
dbHas(store, name) == name \in DOMAIN store

dbSet(store, name, data, overwrite) ==
  IF dbHas(store, name) /\ ~overwrite THEN store
  ELSE (name :> data) @@ store

\* the callback of getUTXOs (lines 768-786) on the response `data`, the
\* store being `store`.  mergeByRule is called for its effect on self and
\* its result is dropped: inPlace tells whether it changes self into the
\* merged set or leaves self as it is and returns a new set
getUTXOs(store, data, persistOpts, inPlace) ==
  IF persistOpts = <<>>
  THEN [utxos |-> addArray(<<>>, data), written |-> <<>>, db |-> store]
  ELSE LET o       == persistOpts[1]
           has     == dbHas(store, o.name)
           fetched == addArray(<<>>, data)
           self    == addArray(<<>>, store[o.name])
           selfNow == IF inPlace THEN mergeByRule(self, fetched, o.mergeRule)
                      ELSE self
           data2   == IF has THEN selfNow ELSE data
       IN  [utxos   |-> addArray(IF has THEN fetched ELSE <<>>, data2),
            written |-> <<data2>>,
            db      |-> dbSet(store, o.name, data2, o.overwrite)]

\* the responses of platform.getUTXOs and the persistence options of a call
FetchedArgs == {<<>>, <<1>>, <<1, 2>>, <<3, 2>>}

PersistArgs ==
  {<<>>} \cup { <<[name |-> "test", overwrite |-> ow, mergeRule |-> r]>> :
                  ow \in BOOLEAN, r \in MergeRules }

\* getUTXOs(addresses, limit, startIndex, persistOpts) up to its request
\* (one call of getUTXOs is in flight at a time)
ApiGetUTXOs(o) ==
  /\ pending = EmptyBag
  /\ pending' = SetToBag({Call("getUTXOs", o)})
  /\ UNCHANGED <<utxos, last, AVAXAssetID, fee, db>>

\* the response `data` of the request of call e arrives
ResumeGetUTXOs(e, data, inPlace) ==
  /\ e \in BagToSet(pending)
  /\ e.op = "getUTXOs"
  /\ pending' = pending (-) SetToBag({e})
  /\ LET r == getUTXOs(db, data, e.args, inPlace)
     IN  /\ db' = r.db
         /\ last' = Returned("getUTXOs",
                             <<r.utxos, r.written, e.args, data,
                               IF e.args # <<>> /\ dbHas(db, e.args[1].name)
                               THEN <<db[e.args[1].name]>> ELSE <<>>>>)
  /\ UNCHANGED <<utxos, AVAXAssetID, fee>>

NextPersist ==
  \/ \E o \in PersistArgs : ApiGetUTXOs(o)
  \/ \E e \in BagToSet(pending) : \E data \in FetchedArgs :
       \E inPlace \in BOOLEAN : ResumeGetUTXOs(e, data, inPlace)
  \/ Take

SpecPersist == Init /\ [][NextPersist]_vars

\* the UTXOs the merge rule yields for the persisted set and the fetched one
MergeOf(persisted, fetched, rule) ==
  IF rule = "union" THEN persisted \cup fetched
  ELSE IF rule = "intersection" THEN persisted \cap fetched
  ELSE IF rule = "differenceSelf" THEN persisted \ fetched
  ELSE IF rule = "symDifference"
    THEN (persisted \ fetched) \cup (fetched \ persisted)
  ELSE IF rule = "unionMinusNew" THEN persisted \ fetched
  ELSE fetched \ persisted

\* getUTXOs has returned for a call with persistence options
PersistedCall == last.op = "getUTXOs" /\ last.value[3] # <<>>

\* C21: with persistence options, the set returned is the merge of the
\* persisted set and the fetched set under the merge rule, and the merged
\* set is what is written under the name; with nothing persisted, the set
\* returned holds exactly the fetched UTXOs
C21_PersistedMerge ==
  PersistedCall =>
    LET returned  == last.value[1]
        written   == last.value[2]
        o         == last.value[3][1]
        fetched   == last.value[4]
        persisted == last.value[5]
    IN  IF persisted = <<>>
        THEN Range(returned) = Range(fetched)
        ELSE /\ Range(returned)
                  = MergeOf(Range(persisted[1]), Range(fetched), o.mergeRule)
             /\ written # <<>>
             /\ Range(written[1]) = Range(returned)

(***************************************************************************)
(* The destination outputs and the change of the export and staking        *)
(* builders, on a set filled from the staking catalogue.                   *)
(***************************************************************************)
\* the argument lists of buildExportTx: 590 or 100 AVAX to address 3, with
\* or without a fee of 10, the change to address 1 or to the destination
KindExportArgs ==
  { [amount |-> am, assetID |-> 1, toAddresses |-> <<3>>,
     fromAddresses |-> <<1>>, changeAddresses |-> ch,
     destinationChain |-> <<5>>, fee |-> f, feeAssetID |-> <<1>>,
     asOf |-> 2, locktime |-> lt, threshold |-> 1] :
    am \in {100, 590}, ch \in {<<>>, << <<1>> >>}, f \in {0, 10},
    lt \in {0, 1} }

KindStakeOps == {"buildAddDelegatorTx", "buildAddValidatorTx"}

NextKinds ==
  \/ \E u \in StakeCatalog : Add(u)
  \/ \E a \in KindExportArgs : BuildExportTx(a)
  \/ \E op \in KindStakeOps : \E a \in StakeArgs : BuildStakeTx(op, a)
  \/ Take

SpecKinds == Init /\ [][NextKinds]_vars

\* buildExportTx, buildAddValidatorTx or buildAddDelegatorTx has returned a
\* transaction
KindBuilt ==
  /\ last.op \in {"buildExportTx"} \cup KindStakeOps
  /\ last.status = "tx"

\* the kind-specific outputs of the transaction built
KindOuts ==
  IF last.op = "buildExportTx" THEN last.tx.exportOuts ELSE last.tx.stakeOuts

\* the owners of a destination output and of a change output of the call
DestinationOwners ==
  IF last.op = "buildExportTx"
  THEN OutputOwners(last.args.toAddresses, last.args.locktime,
                    last.args.threshold)
  ELSE OutputOwners(last.args.fromAddresses, 0, 1)

ChangeOwners ==
  IF last.op = "buildExportTx"
  THEN OutputOwners(IF last.args.changeAddresses = <<>>
                    THEN last.args.toAddresses
                    ELSE last.args.changeAddresses[1], 0, 1)
  ELSE OutputOwners(last.args.changeAddresses, 0, 1)

\* C22: in the transaction of buildExportTx, buildAddValidatorTx and
\* buildAddDelegatorTx the kind-specific list holds the destination outputs
\* only, their amounts adding up to the amount exported or staked, and the
\* outs hold change only: what the inputs hold above that amount and the fee
C22_DestinationApartFromChange ==
  KindBuilt =>
    /\ \A i \in 1..Len(KindOuts) :
         /\ KindOuts[i].assetid = last.args.assetID
         /\ KindOuts[i].output.owners = DestinationOwners
    /\ OutputSum(KindOuts, last.args.assetID) = last.args.amount
    /\ \A i \in 1..Len(last.tx.outs) :
         /\ last.tx.outs[i].assetid = last.args.assetID
         /\ last.tx.outs[i].output.owners = ChangeOwners
    /\ OutputSum(last.tx.outs, last.args.assetID)
         = InputSum(last.tx.ins, last.args.assetID)
             - last.args.amount - last.args.fee
    /\ Len(last.tx.outs) <= 1

\* a validator is added with a stake of MINSTAKE and a fee from UTXOs that
\* hold more: the stake outputs add up to MINSTAKE and there is change
C22_Witness ==
  /\ KindBuilt
  /\ last.op = "buildAddValidatorTx"
  /\ last.args.fee = 1
  /\ OutputSum(last.tx.stakeOuts, 1) = MINSTAKE
  /\ Len(last.tx.outs) = 1
  /\ last.tx.outs[1].output.amount > 0

(***************************************************************************)
(* The chain of a facade call that names none.                             *)
(***************************************************************************)
\* the facade's buildExportTx has completed for a call that left the
\* destination chain out
ChainOmitted ==
  /\ last.op = "api.buildExportTx"
  /\ last.value[1].destinationChainType = "undefined"

\* C23: when the facade's buildExportTx is called with the destination chain
\* omitted, no error is raised for the omitted argument and the outcome is
\* the one of the call that names the platform chain
C23_DefaultChain ==
  ChainOmitted =>
    LET named == apiBuildExportTx(
                   utxos,
                   [last.value[1] EXCEPT
                      !.destinationChain = <<PlatformChainID>>,
                      !.destinationChainType = "Buffer"],
                   last.args.assetID, last.args.fee)
    IN  /\ last.error # "InvalidDestinationChain"
        /\ last.status = named.status
        /\ last.tx = named.tx

(***************************************************************************)
(* The RPC helpers of the facade (api.ts 196-737).  A request in flight is *)
(* an element of pending; the result of a response is a function from the  *)
(* names of its fields to their values.                                    *)
(***************************************************************************)
\* the helpers: the method each one requests and the field of the result it
\* resolves with ("": the result itself)
RpcHelpers ==
  { [name |-> "listAddresses",       field |-> "addresses"],
    [name |-> "importKey",           field |-> "address"],
    [name |-> "getBalance",          field |-> ""],
    [name |-> "addSubnetValidator",  field |-> "txID"],
    [name |-> "addDelegator",        field |-> "txID"],
    [name |-> "getBlockchains",      field |-> "blockchains"],
    [name |-> "getSubnets",          field |-> "subnets"],
    [name |-> "getCurrentValidators", field |-> "validators"],
    [name |-> "exportKey",           field |-> "privateKey"],
    [name |-> "exportAVAX",          field |-> "txID"],
    [name |-> "importAVAX",          field |-> "txID"],
    [name |-> "createBlockchain",    field |-> "txID"],
    [name |-> "getBlockchainStatus", field |-> "status"],
    [name |-> "createAddress",       field |-> "address"],
    [name |-> "createSubnet",        field |-> "txID"],
    [name |-> "validatedBy",         field |-> "subnetID"],
    [name |-> "validates",           field |-> "blockchainIDs"],
    [name |-> "getTx",               field |-> "tx"],
    [name |-> "getTxStatus",         field |-> "status"],
    [name |-> "issueTx",             field |-> "txID"] }

RpcNames == {h.name : h \in RpcHelpers}

RpcFields == {h.field : h \in RpcHelpers} \ {""}

\* the helpers that test an argument before they issue their request:
\* getBalance its address (lines 285-288), issueTx the type of its
\* transaction (lines 638-649)
RpcValidating == {"getBalance", "issueTx"}

\* a callback that resolves with the whole result
RpcResolveWhole(h, result) == result

\* the callback of helper h: response.data.result or its field
RpcResolve(h, result) == IF h.field = "" THEN result ELSE result[h.field]

\* the results a node answers with: every field holds a value of its own
RpcResults ==
  { [f \in RpcFields |->
       <<f, k>>] : k \in 1..2 }

\* a helper is called: its request is issued by the one callMethod of its
\* body, unless the helper refuses its argument first
RpcCall(h, valid) ==
  /\ last = Idle
  /\ IF valid \/ h.name \notin RpcValidating
     THEN /\ BagCardinality(pending) < MaxPending
          /\ pending' = pending (+) SetToBag({Call(h.name, h)})
          /\ UNCHANGED last
     ELSE /\ last' = [Idle EXCEPT !.op = h.name, !.status = "throw",
                                 !.error = "InvalidArgument"]
          /\ UNCHANGED pending
  /\ UNCHANGED <<utxos, AVAXAssetID, fee, db>>

\* the response of the request e arrives: the helper resolves
RpcRespond(e, result) ==
  /\ last = Idle
  /\ e \in BagToSet(pending)
  /\ pending' = pending (-) SetToBag({e})
  /\ last' = Returned(e.op, <<RpcResolve(e.args, result), result>>)
  /\ UNCHANGED <<utxos, AVAXAssetID, fee, db>>

\* the request e fails: callMethod rejects and so does the helper
RpcFail(e) ==
  /\ last = Idle
  /\ e \in BagToSet(pending)
  /\ pending' = pending (-) SetToBag({e})
  /\ last' = [Idle EXCEPT !.op = e.op, !.status = "throw",
                          !.error = "RequestFailed"]
  /\ UNCHANGED <<utxos, AVAXAssetID, fee, db>>

NextRpc ==
  \/ \E h \in RpcHelpers : \E valid \in BOOLEAN : RpcCall(h, valid)
  \/ \E e \in BagToSet(pending) : \E result \in RpcResults :
       RpcRespond(e, result)
  \/ \E e \in BagToSet(pending) : RpcFail(e)
  \/ Take

SpecRpc == Init /\ [][NextRpc]_vars

\* the field of the result a helper is to resolve with
CorrespondingField(name) ==
  IF name \in {"addSubnetValidator", "addDelegator", "exportAVAX",
               "importAVAX", "createBlockchain", "createSubnet", "issueTx"}
    THEN "txID"
  ELSE IF name \in {"importKey", "createAddress"} THEN "address"
  ELSE IF name \in {"getBlockchainStatus", "getTxStatus"} THEN "status"
  ELSE IF name = "listAddresses" THEN "addresses"
  ELSE IF name = "getBlockchains" THEN "blockchains"
  ELSE IF name = "getSubnets" THEN "subnets"
  ELSE IF name = "getCurrentValidators" THEN "validators"
  ELSE IF name = "exportKey" THEN "privateKey"
  ELSE IF name = "validatedBy" THEN "subnetID"
  ELSE IF name = "validates" THEN "blockchainIDs"
  ELSE IF name = "getTx" THEN "tx"
  ELSE ""

\* a step in which a call of a helper completes
RpcCompletes == last = Idle /\ last'.op \in RpcNames

\* the call that completes has had one request, which the step takes out of
\* the requests in flight while issuing none, and it resolves with the
\* field of the response of that request or rejects
RpcOneRequest ==
  /\ \E e \in BagToSet(pending) :
       /\ e.op = last'.op
       /\ pending' = pending (-) SetToBag({e})
  /\ last'.status = "value" =>
       LET f == CorrespondingField(last'.op)
       IN  last'.value[1] = IF f = "" THEN last'.value[2]
                            ELSE last'.value[2][f]

SetBuilder(op, utxoArray, a) ==
  IF op = "buildBaseTx" THEN buildBaseTx(utxoArray, a)
  ELSE buildExportTx(utxoArray, a)

\* a step in which buildBaseTx or buildExportTx returns or throws
BuilderStep == last = Idle /\ last'.op \in {"buildBaseTx", "buildExportTx"}

C26_SpendersAreOwners ==
  /\ \A u \in Range(utxos) : \A c \in CandidateLists : \A t \in 0..2 :
       LET spenders == getSpenders(u.output.owners, c, t)
       IN \A j \in 1..Len(spenders) :
            LET idx == getAddressIdx(u.output.owners, spenders[j])
            IN  /\ idx # 0 - 1
                /\ idx >= 0
                /\ idx < Len(u.output.owners.addresses)
  /\ last.error # "SpenderMismatch"

\* a builder has selected an input that two owners sign, found at the
\* indices 0 and 1 of the owner addresses
C26_Witness ==
  /\ Built
  /\ last.status = "tx"
  /\ \E i \in 1..Len(last.tx.ins) :
       /\ Len(last.tx.ins[i].sigIdxs) = 2
       /\ last.tx.ins[i].sigIdxs[1] = 0
       /\ last.tx.ins[i].sigIdxs[2] = 1

(***************************************************************************)
(* The selection stops when the targets are met.                           *)
(***************************************************************************)
\* the inputs of the selection in the order the walk appended them
Selection == last.aad.inputs

\* the target of the asset in the AAD: its amount plus its burn
TargetOf(assetID) ==
  LET am == last.aad.amounts[AssetIndex(last.aad, assetID)]
  IN am.amount + am.burn

\* the selection without its n-th input
WithoutInput(n) ==
  SubSeq(Selection, 1, n - 1) \o SubSeq(Selection, n + 1, Len(Selection))

\* the n-th input is the one selected last for its asset
SelectedLast(n) ==
  \A m \in (n + 1)..Len(Selection) : Selection[m].assetid # Selection[n].assetid

\* C27: the walk appends an input for a UTXO only if the asset of the UTXO
\* is in the AAD and the inputs appended before it leave the target of that
\* asset (amount plus burn) unmet, so nothing is appended once the AAD can
\* complete; no UTXO yields two inputs; and for every asset the selection
\* without the input selected last for it is below the target of the asset
C27_StopsAtCompletion ==
  Selected =>
    /\ \A n \in 1..Len(Selection) :
         /\ assetExists(last.aad, Selection[n].assetid)
         /\ InputSum(SubSeq(Selection, 1, n - 1), Selection[n].assetid)
              < TargetOf(Selection[n].assetid)
         /\ \E i \in 1..Len(utxos) :
              /\ utxos[i].txid = Selection[n].txid
              /\ utxos[i].outputidx = Selection[n].outputidx
              /\ utxos[i].output.amount = Selection[n].amount
    /\ \A n, m \in 1..Len(Selection) :
         n # m => \/ Selection[n].txid # Selection[m].txid
                  \/ Selection[n].outputidx # Selection[m].outputidx
    /\ \A n \in 1..Len(Selection) :
         SelectedLast(n) =>
           InputSum(WithoutInput(n), Selection[n].assetid)
             < TargetOf(Selection[n].assetid)
    /\ canComplete(last.aad) =>
         Walk(utxos, 1, [aad |-> last.aad, outids |-> [x \in AssetIDs |-> 0],
                         thrown |-> FALSE], last.args.asOf).aad.inputs = Selection

\* a successful selection over two assets that passed over a UTXO of the set
\* the senders could spend, its asset being in the AAD and already met
C27_Witness ==
  /\ Succeeded
  /\ Len(last.aad.amounts) = 2
  /\ Len(Selection) >= 2
  /\ \E i \in 1..Len(utxos) :
       /\ Qualifies(utxos[i], last.aad, last.args.asOf)
       /\ \A n \in 1..Len(Selection) : Selection[n].txid # utxos[i].txid

(***************************************************************************)
(* The AVAX asset ID is discovered once.                                   *)
(***************************************************************************)
\* the step starts a call that suspends as e
Starts(e) == CopiesIn(e, pending') > CopiesIn(e, pending)

\* the step completes the suspended call e
Completes(e) == pending' = pending (-) SetToBag({e})

\* C28: once an AVAX asset ID is stored, a call of getAVAXAssetID or of a
\* builder of the facade issues no getStakingAssetID request: a call that
\* starts carries the stored value, getAVAXAssetID returns the stored value,
\* and a builder that resumes with it passes it to the UTXOSet as the asset
\* ID, the stored value being left as it is
C28_DiscoveryOnce ==
  [][AVAXAssetID # <<>> =>
       /\ \A e \in BagToSet(pending') :
            Starts(e) => e.cached = AVAXAssetID /\ e \notin WaitingRPC'
       /\ (last' # last /\ last'.op = "getAVAXAssetID" /\ pending' = pending) =>
            last'.value = AVAXAssetID /\ AVAXAssetID' = AVAXAssetID
       /\ \A e \in WaitingCached :
            Completes(e) =>
              /\ AVAXAssetID' = AVAXAssetID
              /\ e.cached = AVAXAssetID
              /\ IF e.op = "getAVAXAssetID"
                 THEN last'.value = AVAXAssetID
                 ELSE /\ last'.args.assetID = AVAXAssetID[1]
                      /\ last'.args.feeAssetID = AVAXAssetID]_vars

\* the facade's buildExportTx has returned a transaction of the stored
\* asset, no request being in flight
C28_Witness ==
  /\ last.op = "api.buildExportTx"
  /\ last.status = "tx"
  /\ AVAXAssetID = <<last.args.assetID>>
  /\ pending = EmptyBag
  /\ Len(utxos) >= 1

(***************************************************************************)
(* The facade's buildImportTx (api.ts, 805-873): the atomic UTXOs of the   *)
(* owners are fetched, then the AVAX asset ID, and every atomic UTXO of    *)
(* that asset becomes an imported input.  One call is in flight at a time. *)
(***************************************************************************)
MaxAtomics == 2

\* the atomic UTXOs a node can hold for the owners: 5 of asset 1, 7 of
\* asset 1 locked until time 1 for two owners, 4 of asset 2
AtomicCatalog ==
  { UTXOFromBuffer(31, 1, SECPXFEROUTPUTID, 5, 0, 1, <<1>>),
    UTXOFromBuffer(32, 1, SECPXFEROUTPUTID, 7, 1, 2, <<1, 2>>),
    UTXOFromBuffer(33, 2, SECPXFEROUTPUTID, 4, 0, 1, <<1>>) }

\* the responses of platform.getUTXOs: up to MaxAtomics distinct UTXOs
AtomicResponses ==
  {s \in UNION {[1..n -> AtomicCatalog] : n \in 0..MaxAtomics} :
     \A i, j \in 1..Len(s) : i # j => s[i] # s[j]}

\* an argument list of the facade's buildImportTx; atomics is filled when
\* getUTXOs has resolved
ApiImportCall(d, type, asOf) ==
  [ownerAddresses |-> <<1>>, sourceChain |-> d, sourceChainType |-> type,
   asOf |-> asOf, atomics |-> <<>>]

ApiImportArgs ==
  { ApiImportCall(<<>>, "undefined", t) : t \in {1, 2} }
    \cup { ApiImportCall(<<5>>, "Buffer", t) : t \in {1, 2} }
    \cup { ApiImportCall(<<5>>, "string", t) : t \in {1, 2} }

\* lines 829-854: the imported inputs of the atomic UTXOs i.. of the AVAX
\* asset, the spenders being chosen among all the owners of the output
RECURSIVE ImportInputs(_, _, _, _)
ImportInputs(atomics, i, avaxAssetID, asOf) ==
  IF i > Len(atomics) THEN <<>>
  ELSE IF atomics[i].assetid # avaxAssetID
  THEN ImportInputs(atomics, i + 1, avaxAssetID, asOf)
  ELSE LET output == atomics[i].output
           fromAddresses == output.owners.addresses
       IN <<SelectInput(atomics[i],
                        getSpenders(output.owners, fromAddresses, asOf))>>
            \o ImportInputs(atomics, i + 1, avaxAssetID, asOf)

\* lines 856-866: the arguments the facade passes to UTXOSet.buildImportTx
ImportArgsPassed(a, avaxAssetID, feeNow) ==
  [amount |-> 0, assetID |-> avaxAssetID,
   fromAddresses |-> a.ownerAddresses, changeAddresses |-> <<>>,
   destinationChain |-> IF a.sourceChainType = "string"
                        THEN <<PlatformChainID>> ELSE a.sourceChain,
   fee |-> feeNow, feeAssetID |-> <<avaxAssetID>>, asOf |-> a.asOf,
   importIns |-> ImportInputs(a.atomics[1], 1, avaxAssetID, a.asOf)]

\* lines 823-872: buildImportTx after its two awaits
apiBuildImportTx(set, a, avaxAssetID, feeNow) ==
  IF a.sourceChainType \notin {"string", "Buffer"}
  THEN Outcome("throw", "InvalidDestinationChain", NoAAD, NoTx)
  ELSE LET passed == ImportArgsPassed(a, avaxAssetID, feeNow)
       IN IF \E n \in 1..Len(passed.importIns) :
               \E j \in 1..Len(passed.importIns[n].sigIdxs) :
                 passed.importIns[n].sigIdxs[j] = 0 - 1
          THEN Outcome("throw", "SpenderMismatch", NoAAD, NoTx)
          ELSE GooseEggChecked(buildImportTx(set, passed), avaxAssetID)

\* buildImportTx(utxoset, ownerAddresses, sourceChain, memo, asOf) up to its
\* `await this.getUTXOs(owners)` (lines 805-814)
ApiBuildImportTx(a) ==
  /\ last = Idle
  /\ pending = EmptyBag
  /\ pending' = SetToBag({Call("buildImportTx", a)})
  /\ UNCHANGED <<utxos, last, AVAXAssetID, fee, db>>

\* getUTXOs resolves with the set of the UTXOs data of the response; the
\* call goes on to `await this.getAVAXAssetID()` (lines 814-815)
ResumeImportUTXOs(e, data) ==
  /\ e \in BagToSet(pending)
  /\ e.args.atomics = <<>>
  /\ pending' = SetToBag({[e EXCEPT !.args.atomics = <<data>>,
                                    !.cached = AVAXAssetID]})
  /\ UNCHANGED <<utxos, last, AVAXAssetID, fee, db>>

\* getAVAXAssetID resolves with r and the call runs to its end
ResumeImportTx(e, r) ==
  /\ e \in BagToSet(pending)
  /\ e.args.atomics # <<>>
  /\ e.cached # <<>> => r = e.cached[1]
  /\ pending' = pending (-) SetToBag({e})
  /\ AVAXAssetID' = IF e.cached = <<>> THEN <<r>> ELSE AVAXAssetID
  /\ fee' = IF e.args.sourceChainType \in {"string", "Buffer"}
            THEN getFee(fee) ELSE fee
  /\ last' = [Record("api.buildImportTx",
                     ImportArgsPassed(e.args, r, getFee(fee)[1]),
                     apiBuildImportTx(utxos, e.args, r, getFee(fee)[1]))
                EXCEPT !.value = <<e.args>>]
  /\ UNCHANGED <<utxos, db>>

NextImport ==
  \/ \E u \in FacadeCatalog : Add(u)
  \/ \E a \in ApiImportArgs : ApiBuildImportTx(a)
  \/ \E e \in BagToSet(pending) : \E data \in AtomicResponses :
       ResumeImportUTXOs(e, data)
  \/ \E e \in BagToSet(pending) : \E r \in AssetIDs : ResumeImportTx(e, r)
  \/ Take

SpecImport == Init /\ [][NextImport]_vars

\* the facade's buildImportTx has returned a transaction
Imported == last.op = "api.buildImportTx" /\ last.status = "tx"

\* the atomic UTXOs the call was given
Atomics == last.value[1].atomics[1]

\* the atomic UTXO an imported input refers to
AtomicOf(xi) == CHOOSE u \in Range(Atomics) : u.txid = xi.txid

\* C29 (as claimed): imported inputs are spendable: every imported input
\* built from an atomic UTXO carries exactly threshold signature indices of
\* the output of that UTXO, and an atomic UTXO still locked at asOf
\* (asOf <= locktime) is not turned into an imported input.
C29_ImportedSpendable ==
  Imported =>
    /\ \A n \in 1..Len(last.tx.importIns) :
         LET xi == last.tx.importIns[n]
         IN  /\ \E u \in Range(Atomics) : u.txid = xi.txid
             /\ Len(xi.sigIdxs) = AtomicOf(xi).output.owners.threshold
    /\ \A u \in Range(Atomics) :
         last.args.asOf <= u.output.owners.locktime =>
           \A n \in 1..Len(last.tx.importIns) :
             last.tx.importIns[n].txid # u.txid

\* a transaction has been returned that imports a UTXO unlocked at asOf,
\* with the signature indices of the two owners its threshold asks for
C29_Unlocked ==
  /\ Imported
  /\ \E n \in 1..Len(last.tx.importIns) :
       /\ last.tx.importIns[n].txid = 32
       /\ last.tx.importIns[n].sigIdxs = <<0, 1>>

(***************************************************************************)
(* ExportTx.fromBuffer and ExportTx.toBuffer on one object (api.ts,        *)
(* 1234-1263).  The transactions decoded have no outputs and no inputs of  *)
(* their own, so that the bytes of the base transaction are two counts.    *)
(***************************************************************************)
\* the longest export-output list an object is let to grow to
MaxExportOuts == 4

\* the export outputs of the model: 3 and 9 of asset 1, 3 of asset 2
ExportOutputs ==
  { TransferableOutput(as, SelectOutputClass(SECPXFEROUTPUTID, am, <<1>>, 0, 1)) :
      as \in {1}, am \in {3, 9} }
    \cup { TransferableOutput(2, SelectOutputClass(SECPXFEROUTPUTID, 3, <<1, 2>>, 0, 2)) }

\* the export-output lists a caller constructs an ExportTx with, or a peer
\* encodes: up to two outputs, in any order
ExportOutputLists ==
  {<<>>} \cup {<<x>> : x \in ExportOutputs}
    \cup {<<x, y>> : x \in ExportOutputs, y \in ExportOutputs}

\* the buffers decoded: ExportTx.toBuffer of a transaction to chain 5
ExportBuffers ==
  { TxToBuffer(ExportTx(5, <<>>, <<>>, l)) : l \in ExportOutputLists }

\* BaseTx.fromBuffer(bytes, offset): the offset after the base transaction
BaseFromBuffer(bytes, offset) == offset + 2

\* TransferableOutput.fromBuffer(bytes, offset): assetID, outputid, amount,
\* locktime, threshold, numaddrs and the addresses are read at the offset
TransferableOutputFromBuffer(bytes, offset) ==
  LET numaddrs == bytes[offset + 6]
  IN [xo |-> TransferableOutput(bytes[offset + 1],
               [outputid |-> bytes[offset + 2],
                amount |-> bytes[offset + 3],
                owners |-> OwnersFromBuffer(bytes[offset + 4], bytes[offset + 5],
                             SubSeq(bytes, offset + 7, offset + 6 + numaddrs))]),
      offset |-> offset + 6 + numaddrs]

\* lines 1241-1245: the loop that decodes the outputs i..numOuts at offset
\* and pushes each on the list
RECURSIVE PushExportOuts(_, _, _, _, _)
PushExportOuts(exportOuts, bytes, offset, i, numOuts) ==
  IF i > numOuts THEN exportOuts
  ELSE LET anOut == TransferableOutputFromBuffer(bytes, offset)
       IN PushExportOuts(Append(exportOuts, anOut.xo), bytes, anOut.offset,
                         i + 1, numOuts)

\* ExportTx.fromBuffer(bytes) on the object tx (lines 1234-1247)
ExportTxFromBuffer(tx, bytes) ==
  LET offset == BaseFromBuffer(bytes, 0)
      numOuts == bytes[offset + 2]
  IN [tx EXCEPT !.destinationChain = <<bytes[offset + 1]>>,
                !.exportOuts = PushExportOuts(tx.exportOuts, bytes, offset + 2,
                                              1, numOuts)]

\* the export outputs encoded in the bytes
EncodedExportOuts(bytes) ==
  PushExportOuts(<<>>, bytes, BaseFromBuffer(bytes, 0) + 2, 1,
                 bytes[BaseFromBuffer(bytes, 0) + 2])

ExportObject(op, tx, value) ==
  [Record(op, NoArgs, Outcome("tx", "", NoAAD, tx)) EXCEPT !.value = value]

\* new ExportTx(networkid, blockchainid, destinationChain, outs, ins, memo,
\* exportOuts) (lines 1275-1289); new ExportTx() with l empty
NewExportTx(l) ==
  /\ last = Idle
  /\ last' = ExportObject("new ExportTx", ExportTx(5, <<>>, <<>>, l), <<>>)
  /\ UNCHANGED <<utxos, AVAXAssetID, fee, pending, db>>

\* tx.fromBuffer(b) on the object of the state
DecodeExportTx(b) ==
  /\ last.op \in {"new ExportTx", "ExportTx.fromBuffer", "ExportTx.toBuffer"}
  /\ Len(last.tx.exportOuts) + b[4] <= MaxExportOuts
  /\ last' = ExportObject("ExportTx.fromBuffer", ExportTxFromBuffer(last.tx, b),
                          <<b>>)
  /\ UNCHANGED <<utxos, AVAXAssetID, fee, pending, db>>

\* tx.toBuffer() on the object of the state, after a decoding (lines
\* 1252-1263): the export outputs are sorted in place
EncodeExportTx ==
  /\ last.op = "ExportTx.fromBuffer"
  /\ last' = ExportObject("ExportTx.toBuffer",
                          [last.tx EXCEPT !.exportOuts = SortOutputs(@)],
                          <<last.value[1], TxToBuffer(last.tx)>>)
  /\ UNCHANGED <<utxos, AVAXAssetID, fee, pending, db>>

NextExportCodec ==
  \/ \E l \in ExportOutputLists : NewExportTx(l)
  \/ \E b \in ExportBuffers : DecodeExportTx(b)
  \/ EncodeExportTx
  \/ Take

SpecExportCodec == Init /\ [][NextExportCodec]_vars

\* C30 (as claimed): ExportTx decoding replaces state: after fromBuffer(b)
\* the export-output list of the object has exactly the numOuts outputs
\* encoded in b, whatever it held before, and toBuffer after fromBuffer(b)
\* gives b.
C30_DecodingReplaces ==
  /\ last.op = "ExportTx.fromBuffer" =>
       /\ Len(last.tx.exportOuts) = last.value[1][4]
       /\ last.tx.exportOuts = EncodedExportOuts(last.value[1])
  /\ last.op = "ExportTx.toBuffer" => last.value[2] = last.value[1]

\* an object constructed without export outputs has decoded two outputs and
\* encodes them to the bytes it decoded
C30_FreshObject ==
  /\ last.op = "ExportTx.toBuffer"
  /\ last.value[1][4] = 2
  /\ Len(last.tx.exportOuts) = 2
  /\ last.value[2] = last.value[1]
====
